---- MODULE Spec2Model ----
(***************************************************************************)
(* A model of py-mcsv: the parameter splitter and renderer (util.py), the  *)
(* column type grammar parser (col_type_parser.py), the field descriptions *)
(* and field processors, and the row reader (reader.py).                   *)
(*                                                                         *)
(* A Python str is a sequence of one-character strings; None is the model  *)
(* value None.  A call that raises is a record [kind |-> "raise", exc].    *)
(***************************************************************************)
EXTENDS Integers, Sequences, FiniteSets, TLC

VARIABLES
    inp,            \* the arguments of the call under study, drawn in Init
    op,             \* the name of the last operation applied ("init" before any)
    out,            \* what the last operation returned or raised
    first,          \* MetaCSVReader._first
    reader_pos,     \* number of records MetaCSVReader._reader has yielded
    source_closed,  \* whether MetaCSVReader._source is closed
    lc_time,        \* the LC_TIME locale of the process
    calls,          \* the Date/Datetime processor calls of the threads
    builder,        \* the fields of a MetaCSVDataBuilder
    heap,           \* the mutable objects the builder made, by identity
    built,          \* the MetaCSVData that build() returned, in order
    builder_calls,  \* number of operations applied to the builder and its data
    lexer           \* the local variables of a running _DateFormatParser.lex

locale_vars == <<lc_time, calls>>
builder_vars == <<builder, heap, built, builder_calls>>
vars == <<inp, op, out, first, reader_pos, source_closed, locale_vars,
          builder_vars, lexer>>

None == <<"None">>     \* Python's None: no str, since a str holds single characters
BS == "\\"
SL == "/"

(***************************************************************************)
(* Bounds of the model.                                                    *)
(***************************************************************************)
MaxLen == 4         \* length of the strings given to split_parameters
MaxTokLen == 2      \* length of one token given to render
MaxToks == 2        \* number of tokens given to render
MaxParams == 3      \* number of parameters after the datatype, or after the number type
MaxTextLen == 3     \* length of a generated text given to to_object
MaxRecords == 2     \* number of records after the header
MaxDigits == 8       \* digits of an integer that is formatted
MaxPatternLen == 6   \* characters of a date pattern
MaxBuilderCalls == 4 \* operations applied to one builder and the data it built

(***************************************************************************)
(* Strings.                                                                *)
(***************************************************************************)
SeqsUpTo(S, n) == UNION {[1..k -> S] : k \in 0..n}

Raise(e) == [kind |-> "raise", exc |-> e]
Ret(v) == [kind |-> "return", val |-> v]
NoCall == [kind |-> "none"]

\* "".join(parts)
RECURSIVE Concat(_)
Concat(parts) ==
    IF parts = <<>> THEN <<>> ELSE Head(parts) \o Concat(Tail(parts))

(***************************************************************************)
(* util.py                                                                 *)
(***************************************************************************)
RECURSIVE split_loop(_, _, _, _, _)
split_loop(parameters, j, backslash, cur, new_parameters) ==
    IF j > Len(parameters)
    THEN Append(new_parameters, cur)
    ELSE LET c == parameters[j] IN
         IF c = BS
         THEN split_loop(parameters, j + 1, TRUE, cur, new_parameters)
         ELSE IF c = SL
         THEN IF backslash
              THEN split_loop(parameters, j + 1, FALSE, Append(cur, c),
                              new_parameters)
              ELSE split_loop(parameters, j + 1, backslash, <<>>,
                              Append(new_parameters, cur))
         ELSE split_loop(parameters, j + 1, FALSE,
                         (IF backslash THEN Append(cur, BS) ELSE cur) \o <<c>>,
                         new_parameters)

split_parameters(parameters) == split_loop(parameters, 1, FALSE, <<>>, <<>>)

RECURSIVE render_escaped(_)
render_escaped(value) ==
    IF value = <<>> THEN <<>>
    ELSE LET c == Head(value) IN
         (IF c = SL \/ c = BS THEN <<BS, c>> ELSE <<c>>)
             \o render_escaped(Tail(value))

\* the index (0-based, as in the code) of the last value render writes
RECURSIVE render_last(_, _)
render_last(values, last) ==
    IF last > 0 /\ values[last + 1] = <<>>
    THEN render_last(values, last - 1)
    ELSE last

\* what render(out, *values) writes to out
render(values) ==
    LET last == render_last(values, Len(values) - 1) IN
    IF last < 0 THEN <<>>
    ELSE Concat([i \in 1..last |-> render_escaped(values[i]) \o <<SL>>])
             \o values[last + 1]

(***************************************************************************)
(* date_format_converter.py                                                *)
(***************************************************************************)
NUL == "NUL"        \* the terminator '\0' that lex appends
QUOTE == "'"
Letters == {"G", "y", "Y", "M", "w", "W", "D", "d", "F", "E", "u", "a", "H",
            "k", "K", "h", "m", "s", "S", "z", "Z", "X", "T", "U", "C", "f"}

Absent == <<"Absent">>  \* the key is not in the dictionary

\* ULDML_TO_C1989.get(c * n, Absent): the table after its expansion loop.
\* G, k and K are keys of the table whose value is None; W and F are not keys.
ULDML_TO_C1989(c, n) ==
    CASE c = "G" /\ n <= 5 -> None
      [] c \in {"y", "Y"} /\ n = 2 -> <<"%", "y">>
      [] c \in {"y", "Y"} /\ n \in {1, 3, 4, 5} -> <<"%", "Y">>
      [] c = "M" /\ n <= 2 -> <<"%", "m">>
      [] c = "w" /\ n <= 3 -> <<"%", "W">>
      [] c = "D" /\ n <= 3 -> <<"%", "j">>
      [] c = "d" /\ n <= 2 -> <<"%", "d">>
      [] c = "E" /\ n <= 6 -> <<"%", "A">>
      [] c = "u" /\ n = 1 -> <<"%", "u">>
      [] c = "a" /\ n <= 4 -> <<"%", "p">>
      [] c = "H" /\ n <= 2 -> <<"%", "H">>
      [] c \in {"k", "K"} /\ n <= 2 -> None
      [] c = "h" /\ n <= 2 -> <<"%", "I">>
      [] c = "m" /\ n <= 2 -> <<"%", "M">>
      [] c = "s" /\ n <= 2 -> <<"%", "S">>
      [] c = "S" /\ n <= 19 -> <<"%", "f">>
      [] c = "z" /\ n <= 4 -> <<"%", "Z">>
      [] c \in {"Z", "X"} /\ n <= 5 -> <<"%", "Z">>
      [] OTHER -> Absent

Token(opcode, text) == [opcode |-> opcode, text |-> text]

\* str.isalpha() of a run of one repeated character
isalpha(cur) == cur # <<>> /\ \A k \in 1..Len(cur) : cur[k] \in Letters

\* the loop of lex: i is the (1-based) position, c the character read by the
\* previous iteration, toks the tokens yielded so far
RECURSIVE lex_loop(_, _, _, _, _, _)
lex_loop(text, i, c, state, cur, toks) ==
    IF i > Len(text) THEN toks
    ELSE LET previous == c
             ch == text[i]
         IN
         CASE state = "START" ->
                IF ch = QUOTE
                THEN lex_loop(text, i + 1, ch, "OPEN_TEXT", cur, toks)
                ELSE lex_loop(text, i + 1, ch, "IN_FIELD", <<ch>>, toks)
           [] state = "OPEN_TEXT" ->
                IF ch = QUOTE
                THEN lex_loop(text, i + 1, ch, "START", cur,
                              Append(toks, Token("TEXT", <<QUOTE>>)))
                ELSE lex_loop(text, i + 1, ch, "IN_TEXT", <<ch>>, toks)
           [] state = "IN_FIELD" ->
                IF ch = previous
                THEN lex_loop(text, i + 1, ch, "IN_FIELD", Append(cur, ch), toks)
                ELSE lex_loop(text, i, ch, "START", cur,
                              Append(toks, Token(IF isalpha(cur) THEN "FIELD"
                                                 ELSE "TEXT", cur)))
           [] state = "IN_TEXT" ->
                IF ch = QUOTE
                THEN lex_loop(text, i + 1, ch, "MAYBE_CLOSE_TEXT", cur, toks)
                ELSE lex_loop(text, i + 1, ch, "IN_TEXT", Append(cur, ch), toks)
           [] state = "MAYBE_CLOSE_TEXT" ->
                IF ch = QUOTE
                THEN lex_loop(text, i + 1, ch, "MAYBE_CLOSE_TEXT",
                              Append(cur, ch), toks)
                ELSE lex_loop(text, i, ch, "START", cur,
                              Append(toks, Token("TEXT", cur)))

lex(text) == lex_loop(Append(text, NUL), 1, None, "START", <<>>, <<>>)

\* token.text.replace("%", "%%")
RECURSIVE double_percent(_)
double_percent(text) ==
    IF text = <<>> THEN <<>>
    ELSE (IF Head(text) = "%" THEN <<"%", "%">> ELSE <<Head(text)>>)
             \o double_percent(Tail(text))

\* the loop of _DateFormatParser.parse: ret += None is a TypeError
RECURSIVE date_parse_loop(_, _)
date_parse_loop(toks, ret) ==
    IF toks = <<>> THEN Ret(ret)
    ELSE LET token == Head(toks) IN
         IF token.opcode = "TEXT"
         THEN date_parse_loop(Tail(toks), ret \o double_percent(token.text))
         ELSE LET v == ULDML_TO_C1989(token.text[1], Len(token.text)) IN
              IF v = None THEN Raise("TypeError")
              ELSE date_parse_loop(Tail(toks),
                                   ret \o (IF v = Absent THEN token.text ELSE v))

date_parser_parse(uldml_date_format) ==
    date_parse_loop(lex(uldml_date_format), <<>>)


(***************************************************************************)
(* str methods.  The whitespace of the model is the space character.       *)
(***************************************************************************)
Whitespace == {" "}

RECURSIVE lstrip(_)
lstrip(s) ==
    IF s # <<>> /\ Head(s) \in Whitespace THEN lstrip(Tail(s)) ELSE s

RECURSIVE rstrip(_)
rstrip(s) ==
    IF s # <<>> /\ s[Len(s)] \in Whitespace
    THEN rstrip(SubSeq(s, 1, Len(s) - 1)) ELSE s

strip(s) == lstrip(rstrip(s))

\* c in s
contains(s, c) == \E k \in 1..Len(s) : s[k] = c

(***************************************************************************)
(* Python values that to_object returns and to_string takes: None, bool,   *)
(* str, int, Decimal (sign, coefficient, exponent), float (a decimal       *)
(* fraction with no trailing zero: exact for the short numerals of the     *)
(* model), date (year, month, day).                                        *)
(***************************************************************************)
PyNone == [t |-> "NoneType"]
PyBool(b) == [t |-> "bool", b |-> b]
PyStr(s) == [t |-> "str", s |-> s]
PyInt(n) == [t |-> "int", n |-> n]
PyDecimal(neg, coeff, exp) ==
    [t |-> "Decimal", neg |-> neg, coeff |-> coeff, exp |-> exp]
RECURSIVE PyFloat(_, _, _)
PyFloat(neg, coeff, exp) ==
    IF exp < 0 /\ coeff % 10 = 0 THEN PyFloat(neg, coeff \div 10, exp + 1)
    ELSE [t |-> "float", neg |-> neg, coeff |-> coeff, exp |-> exp]
PyDate(y, m, d) == [t |-> "date", y |-> y, m |-> m, d |-> d]

DigitChars == <<"0", "1", "2", "3", "4", "5", "6", "7", "8", "9">>
IsDigit(c) == \E k \in 1..10 : DigitChars[k] = c
DigitVal(c) == (CHOOSE k \in 1..10 : DigitChars[k] = c) - 1
AllDigits(s) == \A k \in 1..Len(s) : IsDigit(s[k])

RECURSIVE DigitsVal(_)
DigitsVal(s) ==
    IF s = <<>> THEN 0
    ELSE 10 * DigitsVal(SubSeq(s, 1, Len(s) - 1)) + DigitVal(s[Len(s)])

RECURSIVE NatStr(_)
NatStr(n) ==
    IF n < 10 THEN <<DigitChars[n + 1]>>
    ELSE Append(NatStr(n \div 10), DigitChars[(n % 10) + 1])

RECURSIVE Pow10(_)
Pow10(k) == IF k = 0 THEN 1 ELSE 10 * Pow10(k - 1)

RECURSIVE Zeros(_)
Zeros(k) == IF k <= 0 THEN <<>> ELSE <<"0">> \o Zeros(k - 1)

\* the digits of coeff * 10^exp (exp <= 0) in plain notation
PlainDigits(coeff, exp) ==
    LET ds == NatStr(coeff)
        padded == Zeros(1 - exp - Len(ds)) \o ds
        n == Len(padded)
    IN  IF exp = 0 THEN ds
        ELSE SubSeq(padded, 1, n + exp) \o <<".">>
                 \o SubSeq(padded, n + exp + 1, n)

\* str(value) of an int, a Decimal or a float
str_number(value) ==
    CASE value.t = "int" ->
            IF value.n < 0 THEN <<"-">> \o NatStr(-value.n)
            ELSE NatStr(value.n)
      [] value.t = "Decimal" ->
            (IF value.neg THEN <<"-">> ELSE <<>>)
                \o PlainDigits(value.coeff, value.exp)
      [] value.t = "float" ->
            (IF value.neg THEN <<"-">> ELSE <<>>)
                \o (IF value.exp = 0 THEN NatStr(value.coeff) \o <<".", "0">>
                    ELSE PlainDigits(value.coeff, value.exp))

\* value < 0
is_negative(value) ==
    IF value.t = "int" THEN value.n < 0 ELSE value.neg /\ value.coeff # 0

\* int(value): the value truncated towards zero
int_of(value) ==
    IF value.t = "int" THEN value
    ELSE LET q == value.coeff \div Pow10(-value.exp) IN
         PyInt(IF value.neg THEN -q ELSE q)

\* the position of the first c in s, 0 when there is none (str.find + 1)
RECURSIVE find(_, _, _)
find(s, c, k) ==
    IF k > Len(s) THEN 0 ELSE IF s[k] = c THEN k ELSE find(s, c, k + 1)

\* the numeral int(), float() and Decimal() read: blanks around it dropped,
\* an optional sign, digits, and for float and Decimal an optional point
Numeral(text) ==
    LET t == strip(text)
        signed == t # <<>> /\ t[1] \in {"+", "-"}
        body == IF signed THEN Tail(t) ELSE t
        dot == find(body, ".", 1)
        ipart == IF dot = 0 THEN body ELSE SubSeq(body, 1, dot - 1)
        fpart == IF dot = 0 THEN <<>> ELSE SubSeq(body, dot + 1, Len(body))
    IN  [neg |-> signed /\ t[1] = "-", point |-> dot # 0,
         ipart |-> ipart, fpart |-> fpart,
         ok |-> AllDigits(ipart) /\ AllDigits(fpart)
                    /\ Len(ipart) + Len(fpart) > 0]

\* int(text): ValueError unless text is a numeral with no point
int_parse(text) ==
    LET n == Numeral(text) IN
    IF n.ok /\ ~n.point
    THEN Ret(PyInt(IF n.neg THEN -DigitsVal(n.ipart) ELSE DigitsVal(n.ipart)))
    ELSE Raise("ValueError")

\* float(text): ValueError unless text is a numeral
float_parse(text) ==
    LET n == Numeral(text) IN
    IF n.ok
    THEN Ret(PyFloat(n.neg, DigitsVal(n.ipart \o n.fpart), -Len(n.fpart)))
    ELSE Raise("ValueError")

\* Decimal(text): decimal.InvalidOperation, which is no ValueError, unless
\* text is a numeral
decimal_parse(text) ==
    LET n == Numeral(text) IN
    IF n.ok
    THEN Ret(PyDecimal(n.neg, DigitsVal(n.ipart \o n.fpart), -Len(n.fpart)))
    ELSE Raise("InvalidOperation")

\* str.casefold() on the letters of the model
casefold_char(c) ==
    CASE c = "N" -> "n" [] c = "U" -> "u" [] c = "L" -> "l"
      [] c = "T" -> "t" [] c = "F" -> "f" [] OTHER -> c
casefold(s) == [k \in 1..Len(s) |-> casefold_char(s[k])]

startswith(s, prefix) ==
    Len(prefix) <= Len(s) /\ SubSeq(s, 1, Len(prefix)) = prefix
endswith(s, suffix) ==
    Len(suffix) <= Len(s)
        /\ SubSeq(s, Len(s) - Len(suffix) + 1, Len(s)) = suffix

\* s.replace(old, new): the occurrences of old, left to right, not
\* overlapping; an empty old stands before each character and at the end
RECURSIVE replace(_, _, _)
replace(s, old, new) ==
    IF old = <<>>
    THEN IF s = <<>> THEN new
         ELSE new \o <<Head(s)>> \o replace(Tail(s), old, new)
    ELSE IF s = <<>> THEN <<>>
    ELSE IF startswith(s, old)
    THEN new \o replace(SubSeq(s, Len(old) + 1, Len(s)), old, new)
    ELSE <<Head(s)>> \o replace(Tail(s), old, new)

(***************************************************************************)
(* util.py: the number formatters.                                         *)
(***************************************************************************)
\* the while loop of format_integer
RECURSIVE format_integer_loop(_, _, _, _)
format_integer_loop(text, i, s, thousand_separator) ==
    IF i < Len(text)
    THEN IF thousand_separator = None
         THEN Raise("TypeError")
         ELSE format_integer_loop(
                  text, i + 3,
                  s \o thousand_separator
                    \o SubSeq(text, i + 1,
                              IF i + 3 < Len(text) THEN i + 3 ELSE Len(text)),
                  thousand_separator)
    ELSE Ret(s)

\* format_integer with the sign counted among the digits
format_integer_sign_as_digit(value, thousand_separator) ==
    LET text == str_number(value)
        size == Len(text)
        i0 == size % 3
        i == IF i0 = 0 THEN 3 ELSE i0
    IN  format_integer_loop(text, i,
                            SubSeq(text, 1, IF i < size THEN i ELSE size),
                            thousand_separator)

format_integer(value, thousand_separator) ==
    LET text == str_number(value)
        size == Len(text)
        start == IF is_negative(value) THEN 1 ELSE 0
        i0 == ((size - start) % 3) + start
        i == IF i0 = start THEN i0 + 3 ELSE i0
    IN  format_integer_loop(text, i,
                            SubSeq(text, 1, IF i < size THEN i ELSE size),
                            thousand_separator)

\* format_decimal and format_float have the same body
format_decimal(value, thousand_separator, decimal_separator) ==
    LET default_ts == thousand_separator = None \/ thousand_separator = <<>>
        default_ds == decimal_separator = None \/ decimal_separator = <<".">>
        text == str_number(value)
        sep_index == find(text, ".", 1)
    IN  IF default_ds /\ default_ts THEN Ret(text)
        ELSE IF sep_index = 0 THEN format_integer(value, thousand_separator)
        ELSE LET head == format_integer(int_of(value), thousand_separator) IN
             IF head.kind = "raise" THEN head
             ELSE IF decimal_separator = None THEN Raise("TypeError")
             ELSE Ret(head.val \o decimal_separator
                          \o SubSeq(text, sep_index + 1, Len(text)))

format_float(value, thousand_separator, decimal_separator) ==
    format_decimal(value, thousand_separator, decimal_separator)


(***************************************************************************)
(* The words of the grammar, as the code writes them.                      *)
(***************************************************************************)
S_bool == <<"b", "o", "o", "l">>
S_boolean == <<"b", "o", "o", "l", "e", "a", "n">>
S_sign == <<"s", "i", "g", "n">>
S_date == <<"d", "a", "t", "e">>
S_datetime == <<"d", "a", "t", "e", "t", "i", "m", "e">>
S_decimal == <<"d", "e", "c", "i", "m", "a", "l">>
S_float == <<"f", "l", "o", "a", "t">>
S_integer == <<"i", "n", "t", "e", "g", "e", "r">>
S_percentage == <<"p", "e", "r", "c", "e", "n", "t", "a", "g", "e">>
S_text == <<"t", "e", "x", "t">>
S_object == <<"o", "b", "j", "e", "c", "t">>
S_pre == <<"p", "r", "e">>
S_post == <<"p", "o", "s", "t">>
S_UTF8 == <<"U", "T", "F", "8">>

(***************************************************************************)
(* field_descriptions.py: a description is a record of its class (type)    *)
(* and its fields; render gives what str(description) returns.             *)
(***************************************************************************)
BooleanFieldDescription(true_word, false_word) ==
    [type |-> "Boolean", true_word |-> true_word, false_word |-> false_word]
IntegerFieldDescription(thousand_sep) ==
    [type |-> "Integer", thousand_sep |-> thousand_sep]
FloatFieldDescription(thousand_sep, decimal_sep) ==
    [type |-> "Float", thousand_sep |-> thousand_sep,
     decimal_sep |-> decimal_sep]
DecimalFieldDescription(thousand_sep, decimal_sep) ==
    [type |-> "Decimal", thousand_sep |-> thousand_sep,
     decimal_sep |-> decimal_sep]
DateFieldDescription(date_format, locale_name) ==
    [type |-> "Date", date_format |-> date_format, locale_name |-> locale_name]
DatetimeFieldDescription(date_format, locale_name) ==
    [type |-> "Datetime", date_format |-> date_format,
     locale_name |-> locale_name]
TextFieldDescription == [type |-> "Text"]
CurrencyIntegerFieldDescription(pre, currency, integer_description) ==
    [type |-> "CurrencyInteger", pre |-> pre, currency |-> currency,
     number_description |-> integer_description]
CurrencyDecimalFieldDescription(pre, currency, decimal_description) ==
    [type |-> "CurrencyDecimal", pre |-> pre, currency |-> currency,
     number_description |-> decimal_description]
PercentageFloatFieldDescription(pre, sign, float_description) ==
    [type |-> "PercentageFloat", pre |-> pre, sign |-> sign,
     number_description |-> float_description]
PercentageDecimalFieldDescription(pre, sign, decimal_description) ==
    [type |-> "PercentageDecimal", pre |-> pre, sign |-> sign,
     number_description |-> decimal_description]

none_to_empty(value) == IF value = None THEN <<>> ELSE value

\* FieldDescription.__str__: the render method of each class
RECURSIVE render_description(_)
render_description(d) ==
    CASE d.type = "Boolean" ->
            IF d.false_word # <<>> /\ d.false_word # None
            THEN render(<<S_boolean, d.true_word, d.false_word>>)
            ELSE render(<<S_boolean, d.true_word>>)
      [] d.type \in {"CurrencyInteger", "CurrencyDecimal"} ->
            render(<<S_sign, IF d.pre THEN S_pre ELSE S_post,
                     none_to_empty(d.currency)>>)
                \o <<SL>> \o render_description(d.number_description)
      [] d.type = "Date" ->
            IF d.locale_name = None
            THEN render(<<S_date, d.date_format>>)
            ELSE render(<<S_date, d.date_format, d.locale_name>>)
      [] d.type = "Datetime" ->
            IF d.locale_name = None
            THEN render(<<S_datetime, d.date_format>>)
            ELSE render(<<S_datetime, d.date_format, d.locale_name>>)
      [] d.type = "Decimal" ->
            render(<<S_decimal, none_to_empty(d.thousand_sep), d.decimal_sep>>)
      [] d.type = "Float" ->
            render(<<S_float, none_to_empty(d.thousand_sep), d.decimal_sep>>)
      [] d.type = "Integer" ->
            IF d.thousand_sep = None THEN S_integer
            ELSE render(<<S_integer, none_to_empty(d.thousand_sep)>>)
      [] d.type \in {"PercentageFloat", "PercentageDecimal"} ->
            render(<<S_percentage, IF d.pre THEN S_pre ELSE S_post,
                     none_to_empty(d.sign)>>)
                \o <<SL>> \o render_description(d.number_description)
      [] d.type = "Text" -> S_text

(***************************************************************************)
(* col_type_parser.py: each parse_data_*_row returns Ret(description) or   *)
(* Raise("ValueError").                                                    *)
(***************************************************************************)
parse_data_bool_row(parameters) ==
    IF Len(parameters) = 1
    THEN Ret(BooleanFieldDescription(parameters[1], <<>>))
    ELSE IF Len(parameters) = 2
    THEN Ret(BooleanFieldDescription(parameters[1], parameters[2]))
    ELSE Raise("ValueError")

\* is_pre with the test of "post" left out
is_pre_no_else(pre_post) == Ret(pre_post = S_pre)

is_pre(pre_post) ==
    IF pre_post = S_pre THEN Ret(TRUE)
    ELSE IF pre_post = S_post THEN Ret(FALSE)
    ELSE Raise("ValueError")

\* the date format and the locale name, before the description is built
parse_data_date_or_datetime_parameters(parameters) ==
    IF Len(parameters) \notin {1, 2} THEN Raise("ValueError")
    ELSE LET uldml_date_format == parameters[1]
             locale_name ==
                 IF Len(parameters) = 1 THEN None
                 ELSE IF ~contains(parameters[2], ".")
                 THEN parameters[2] \o S_UTF8
                 ELSE parameters[2]
             c1989_date_format == date_parser_parse(uldml_date_format)
         IN  IF c1989_date_format.kind = "raise" THEN c1989_date_format
             ELSE Ret(<<c1989_date_format.val, locale_name>>)

parse_data_date_row(parameters) ==
    LET r == parse_data_date_or_datetime_parameters(parameters) IN
    IF r.kind = "raise" THEN r
    ELSE Ret(DateFieldDescription(r.val[1], r.val[2]))

parse_data_datetime_row(parameters) ==
    LET r == parse_data_date_or_datetime_parameters(parameters) IN
    IF r.kind = "raise" THEN r
    ELSE Ret(DatetimeFieldDescription(r.val[1], r.val[2]))

parse_data_float_row(parameters) ==
    IF Len(parameters) = 2
    THEN LET thousands_separator == parameters[1]
             dec_separator == IF parameters[2] # <<" ">>
                              THEN strip(parameters[2]) ELSE parameters[2]
         IN  IF thousands_separator = dec_separator THEN Raise("ValueError")
             ELSE Ret(FloatFieldDescription(thousands_separator, dec_separator))
    ELSE Raise("ValueError")

\* parse_data_decimal_row with the comparison of the two separators left out
parse_data_decimal_row_unchecked(parameters) ==
    IF Len(parameters) = 2
    THEN Ret(DecimalFieldDescription(
                 parameters[1],
                 IF parameters[2] # <<" ">> THEN strip(parameters[2])
                 ELSE parameters[2]))
    ELSE Raise("ValueError")

parse_data_decimal_row(parameters) ==
    IF Len(parameters) = 2
    THEN LET thousands_separator == parameters[1]
             dec_separator == IF parameters[2] # <<" ">>
                              THEN strip(parameters[2]) ELSE parameters[2]
         IN  IF thousands_separator = dec_separator THEN Raise("ValueError")
             ELSE Ret(DecimalFieldDescription(thousands_separator,
                                              dec_separator))
    ELSE Raise("ValueError")

parse_data_integer_row(parameters) ==
    IF Len(parameters) = 0 THEN Ret(IntegerFieldDescription(None))
    ELSE IF Len(parameters) = 1
    THEN Ret(IntegerFieldDescription(parameters[1]))
    ELSE Raise("ValueError")

parse_data_currency_row(parameters) ==
    IF Len(parameters) < 3 THEN Raise("ValueError")
    ELSE LET symbol == parameters[2]
             number_type == parameters[3]
             number_parameters == SubSeq(parameters, 4, Len(parameters))
             pre == is_pre(parameters[1])
         IN  IF pre.kind = "raise" THEN pre
             ELSE IF number_type = S_integer
             THEN LET n == parse_data_integer_row(number_parameters) IN
                  IF n.kind = "raise" THEN n
                  ELSE Ret(CurrencyIntegerFieldDescription(pre.val, symbol,
                                                           n.val))
             ELSE IF number_type = S_decimal
             THEN LET n == parse_data_decimal_row(number_parameters) IN
                  IF n.kind = "raise" THEN n
                  ELSE Ret(CurrencyDecimalFieldDescription(pre.val, symbol,
                                                           n.val))
             ELSE Raise("ValueError")

parse_data_percentage_row(parameters) ==
    IF Len(parameters) < 3 THEN Raise("ValueError")
    ELSE LET symbol == parameters[2]
             number_type == parameters[3]
             number_parameters == SubSeq(parameters, 4, Len(parameters))
             pre == is_pre(parameters[1])
         IN  IF pre.kind = "raise" THEN pre
             ELSE IF number_type = S_decimal
             THEN LET n == parse_data_decimal_row(number_parameters) IN
                  IF n.kind = "raise" THEN n
                  ELSE Ret(PercentageDecimalFieldDescription(pre.val, symbol,
                                                             n.val))
             ELSE IF number_type = S_float
             THEN LET n == parse_data_float_row(number_parameters) IN
                  IF n.kind = "raise" THEN n
                  ELSE Ret(PercentageFloatFieldDescription(pre.val, symbol,
                                                           n.val))
             ELSE Raise("ValueError")

\* the default create_object_description of ColTypeParser.__init__
parse_data_object_row(parameters) == Ret(TextFieldDescription)

parse_col_type(value) ==
    LET split == split_parameters(value)
        datatype == Head(split)
        parameters == Tail(split)
    IN  CASE datatype = S_bool -> parse_data_bool_row(parameters)
          [] datatype = S_sign -> parse_data_currency_row(parameters)
          [] datatype = S_date -> parse_data_date_row(parameters)
          [] datatype = S_datetime -> parse_data_datetime_row(parameters)
          [] datatype = S_decimal -> parse_data_decimal_row(parameters)
          [] datatype = S_float -> parse_data_float_row(parameters)
          [] datatype = S_integer -> parse_data_integer_row(parameters)
          [] datatype = S_percentage -> parse_data_percentage_row(parameters)
          [] datatype = S_text -> Ret(TextFieldDescription)
          [] datatype = S_object -> parse_data_object_row(parameters)
          [] OTHER -> Raise("ValueError")


(***************************************************************************)
(* time.strptime and date.strftime for the directives %Y, %m, %d and %%,   *)
(* and literal characters (compared without case, as _strptime does); the  *)
(* alternatives of a directive are tried in the order of its regular       *)
(* expression.  mktime and fromtimestamp give back the same date.          *)
(***************************************************************************)
FirstMatch(results) ==
    IF \E k \in 1..Len(results) : results[k].kind = "return"
    THEN results[CHOOSE k \in 1..Len(results) :
                     /\ results[k].kind = "return"
                     /\ \A j \in 1..(k - 1) : results[j].kind = "raise"]
    ELSE Raise("ValueError")

DaysInMonth(y, m) ==
    IF m = 2
    THEN IF (y % 4 = 0 /\ y % 100 # 0) \/ y % 400 = 0 THEN 29 ELSE 28
    ELSE IF m \in {4, 6, 9, 11} THEN 30 ELSE 31

RECURSIVE strptime_match(_, _, _, _, _)
strptime_match(text, ti, format, fi, found) ==
    LET digits(k) == /\ ti + k - 1 <= Len(text)
                     /\ AllDigits(SubSeq(text, ti, ti + k - 1))
        val(k) == DigitsVal(SubSeq(text, ti, ti + k - 1))
        field(name, k, lo, hi) ==
            IF digits(k) /\ val(k) >= lo /\ val(k) <= hi
            THEN strptime_match(text, ti + k, format, fi + 2,
                                [found EXCEPT ![name] = val(k)])
            ELSE Raise("ValueError")
    IN
    IF fi > Len(format)
    THEN IF ti > Len(text) /\ found.d <= DaysInMonth(found.y, found.m)
         THEN Ret(PyDate(found.y, found.m, found.d))
         ELSE Raise("ValueError")
    ELSE IF format[fi] = "%"
    THEN IF fi = Len(format) THEN Raise("ValueError")
         ELSE CASE format[fi + 1] = "Y" -> field("y", 4, 0, 9999)
                [] format[fi + 1] = "m" ->
                       FirstMatch(<<field("m", 2, 10, 12),
                                    IF digits(2) /\ text[ti] = "0"
                                    THEN field("m", 2, 1, 9)
                                    ELSE Raise("ValueError"),
                                    field("m", 1, 1, 9)>>)
                [] format[fi + 1] = "d" ->
                       FirstMatch(<<field("d", 2, 10, 31),
                                    IF digits(2) /\ text[ti] = "0"
                                    THEN field("d", 2, 1, 9)
                                    ELSE Raise("ValueError"),
                                    field("d", 1, 1, 9)>>)
                [] format[fi + 1] = "%" ->
                       IF ti <= Len(text) /\ text[ti] = "%"
                       THEN strptime_match(text, ti + 1, format, fi + 2, found)
                       ELSE Raise("ValueError")
                [] OTHER -> Raise("ValueError")
    ELSE IF ti <= Len(text)
            /\ casefold_char(text[ti]) = casefold_char(format[fi])
    THEN strptime_match(text, ti + 1, format, fi + 1, found)
    ELSE Raise("ValueError")

\* fromtimestamp(mktime(strptime(text, format)))
strptime(text, format) ==
    strptime_match(text, 1, format, 1, [y |-> 1900, m |-> 1, d |-> 1])

TwoDigits(n) == IF n < 10 THEN <<"0">> \o NatStr(n) ELSE NatStr(n)

RECURSIVE strftime(_, _)
strftime(value, format) ==
    IF format = <<>> THEN <<>>
    ELSE IF Head(format) = "%" /\ Len(format) >= 2
            /\ format[2] \in {"Y", "m", "d", "%"}
    THEN (CASE format[2] = "Y" -> NatStr(value.y)
            [] format[2] = "m" -> TwoDigits(value.m)
            [] format[2] = "d" -> TwoDigits(value.d)
            [] format[2] = "%" -> <<"%">>)
             \o strftime(value, SubSeq(format, 3, Len(format)))
    ELSE <<Head(format)>> \o strftime(value, Tail(format))

\* the locales setlocale(LC_TIME, name) accepts on the machine
InstalledLocales == {<<"C">>, <<"C", ".", "U">>}

(***************************************************************************)
(* field_processors.py: a processor is a record of its class (type) and    *)
(* its fields.                                                             *)
(***************************************************************************)
BooleanFieldProcessor(true_word, false_word, null_value) ==
    [type |-> "BooleanFieldProcessor", null_value |-> null_value,
     false_word |-> casefold(false_word), true_word |-> casefold(true_word)]
CurrencyFieldProcessor(pre, currency, number_processor, null_value) ==
    [type |-> "CurrencyFieldProcessor", pre |-> pre, currency |-> currency,
     number_processor |-> number_processor, null_value |-> null_value]
DateAndDatetimeFieldProcessor(fromtimestamp, date_format, locale_name, null_value) ==
    [type |-> "DateAndDatetimeFieldProcessor", fromtimestamp |-> fromtimestamp,
     date_format |-> date_format, locale_name |-> locale_name,
     null_value |-> null_value]
DecimalFieldProcessor(thousand_separator, decimal_separator, null_value) ==
    [type |-> "DecimalFieldProcessor",
     thousand_separator |-> thousand_separator,
     decimal_separator |-> decimal_separator, null_value |-> null_value]
FloatFieldProcessor(thousand_separator, decimal_separator, null_value) ==
    [type |-> "FloatFieldProcessor",
     thousand_separator |-> thousand_separator,
     decimal_separator |-> decimal_separator, null_value |-> null_value]
IntegerFieldProcessor(thousand_separator, null_value) ==
    [type |-> "IntegerFieldProcessor",
     thousand_separator |-> thousand_separator, null_value |-> null_value]
PercentageFieldProcessor(pre, sign, number_processor, null_value) ==
    [type |-> "PercentageFieldProcessor", pre |-> pre, sign |-> sign,
     number_processor |-> number_processor, null_value |-> null_value]
TextFieldProcessor(null_value) ==
    [type |-> "TextFieldProcessor", null_value |-> null_value]

ProcessorTypes ==
    {"BooleanFieldProcessor", "CurrencyFieldProcessor",
     "DateAndDatetimeFieldProcessor", "DecimalFieldProcessor",
     "FloatFieldProcessor", "IntegerFieldProcessor",
     "PercentageFieldProcessor", "TextFieldProcessor"}

\* text is None or a str; the result is None or text
text_or_none(text, null_value) ==
    IF text = None THEN None
    ELSE IF strip(text) = null_value THEN None ELSE text

\* int(text), float(text) or Decimal(text), by the class of the processor
parse_number(p, text) ==
    CASE p.type = "IntegerFieldProcessor" -> int_parse(text)
      [] p.type = "FloatFieldProcessor" -> float_parse(text)
      [] p.type = "DecimalFieldProcessor" -> decimal_parse(text)

\* to_object of the three number processors: the separators are taken out
\* in the try block and the text is parsed; only a ValueError becomes
\* MetaCSVReadException
number_to_object(p, text) ==
    IF text = None THEN Ret(PyNone)
    ELSE LET t == casefold(strip(text))
             t1 == IF p.thousand_separator \notin {None, <<>>}
                   THEN replace(t, p.thousand_separator, <<>>) ELSE t
             point == p.type # "IntegerFieldProcessor"
             t2 == IF point /\ p.decimal_separator # <<".">>
                   THEN replace(t1, p.decimal_separator, <<".">>) ELSE t1
             r == parse_number(p, t2)
         IN  IF t = p.null_value THEN Ret(PyNone)
             ELSE IF point /\ p.decimal_separator = None
             THEN Raise("TypeError")
             ELSE IF r.kind = "raise" /\ r.exc = "ValueError"
             THEN Raise("MetaCSVReadException") ELSE r

\* a / b as PercentageFieldProcessor.to_object computes it: a TypeError when
\* an operand is None; a Decimal divided by a power of ten is exact and
\* keeps the shortest coefficient down to the ideal exponent; any other
\* quotient is kept as the pair of its operands
RECURSIVE StripZeros(_, _, _)
StripZeros(coeff, exp, limit) ==
    IF coeff # 0 /\ coeff % 10 = 0 /\ exp < limit
    THEN StripZeros(coeff \div 10, exp + 1, limit) ELSE [coeff |-> coeff, exp |-> exp]

divide(a, b) ==
    IF a.t \notin {"int", "float", "Decimal"}
           \/ b.t \notin {"int", "float", "Decimal"}
    THEN Raise("TypeError")
    ELSE IF a.t = "Decimal" /\ b.t = "Decimal" /\ b.coeff # 0
            /\ StripZeros(b.coeff, b.exp, b.exp + 9).coeff = 1
    THEN LET d == StripZeros(b.coeff, b.exp, b.exp + 9)
             q == StripZeros(a.coeff, a.exp - d.exp, a.exp - b.exp)
         IN  Ret(PyDecimal(a.neg # b.neg, q.coeff, q.exp))
    ELSE IF b.t # "int" /\ b.coeff = 0
    THEN Raise(IF b.t = "float" THEN "ZeroDivisionError" ELSE "DivisionByZero")
    ELSE Ret([t |-> "quotient", num |-> a, den |-> b])

S_100_0 == <<"1", "0", "0", ".", "0">>
S_true == <<"t", "r", "u", "e">>
S_false == <<"f", "a", "l", "s", "e">>
S_NoneStr == <<"N", "o", "n", "e">>

RECURSIVE to_object(_, _)
to_object(p, text) ==
    CASE p.type = "BooleanFieldProcessor" ->
            LET t == text_or_none(text, p.null_value) IN
            IF t = None THEN Ret(PyNone)
            ELSE IF casefold(t) = p.true_word THEN Ret(PyBool(TRUE))
            ELSE IF casefold(t) = p.false_word THEN Ret(PyBool(FALSE))
            ELSE Raise("MetaCSVReadException")
      [] p.type = "CurrencyFieldProcessor" ->
            LET t == text_or_none(text, p.null_value)
                size == Len(p.currency)
            IN
            IF t = None THEN Ret(PyNone)
            ELSE IF p.pre
            THEN IF startswith(t, p.currency)
                 THEN to_object(p.number_processor,
                                lstrip(SubSeq(t, size + 1, Len(t))))
                 ELSE Raise("MetaCSVReadException")
            ELSE IF endswith(t, p.currency)
                 THEN to_object(p.number_processor,
                                lstrip(IF size = 0 THEN <<>>
                                       ELSE SubSeq(t, 1, Len(t) - size)))
                 ELSE Raise("MetaCSVReadException")
      [] p.type = "DateAndDatetimeFieldProcessor" ->
            LET t == text_or_none(text, p.null_value) IN
            IF t = None THEN Ret(PyNone)
            ELSE IF p.locale_name = None THEN strptime(t, p.date_format)
            ELSE IF p.locale_name \notin InstalledLocales
            THEN Raise("locale.Error")
            ELSE strptime(t, p.date_format)
      [] p.type \in {"DecimalFieldProcessor", "FloatFieldProcessor",
                     "IntegerFieldProcessor"} ->
            number_to_object(p, text)
      [] p.type = "PercentageFieldProcessor" ->
            LET t == text_or_none(text, p.null_value)
                size == Len(p.sign)
                rest == IF p.pre THEN lstrip(SubSeq(t, size + 1, Len(t)))
                        ELSE lstrip(IF size = 0 THEN <<>>
                                    ELSE SubSeq(t, 1, Len(t) - size))
                a == to_object(p.number_processor, rest)
                b == to_object(p.number_processor, S_100_0)
            IN
            IF t = None THEN Ret(PyNone)
            ELSE IF (p.pre /\ ~startswith(t, p.sign))
                    \/ (~p.pre /\ ~endswith(t, p.sign))
            THEN Raise("MetaCSVReadException")
            ELSE IF a.kind = "raise" THEN a
            ELSE IF b.kind = "raise" THEN b
            ELSE divide(a.val, b.val)
      [] p.type = "TextFieldProcessor" ->
            LET t == text_or_none(text, p.null_value) IN
            IF t = None THEN Ret(PyNone) ELSE Ret(PyStr(t))
      [] OTHER -> Raise("AttributeError")   \* p is no processor

\* the symbol put against the number, with nothing between them
with_symbol_no_space(pre, symbol, v) ==
    LET vs == IF v.t = "NoneType" THEN S_NoneStr ELSE v.s IN
    IF pre THEN symbol \o vs ELSE vs \o symbol

\* f"{symbol} {v}" or f"{v} {symbol}", v being what the number processor gave
with_symbol(pre, symbol, v) ==
    LET vs == IF v.t = "NoneType" THEN S_NoneStr ELSE v.s IN
    IF pre THEN symbol \o <<" ">> \o vs ELSE vs \o <<" ">> \o symbol

RECURSIVE to_string(_, _)
to_string(p, value) ==
    CASE p.type = "BooleanFieldProcessor" ->
            IF value = PyNone THEN Ret(PyNone)
            ELSE Ret(PyStr(IF value.b THEN S_true ELSE S_false))
      [] p.type = "CurrencyFieldProcessor" ->
            IF value = PyNone THEN Ret(PyStr(p.null_value))
            ELSE LET v == to_string(p.number_processor, value) IN
                 IF v.kind = "raise" THEN v
                 ELSE Ret(PyStr(with_symbol(p.pre, p.currency, v.val)))
      [] p.type = "DateAndDatetimeFieldProcessor" ->
            IF p.locale_name # None /\ p.locale_name \notin InstalledLocales
            THEN Raise("locale.Error")
            ELSE IF value = PyNone THEN Raise("AttributeError")
            ELSE Ret(PyStr(strftime(value, p.date_format)))
      [] p.type = "DecimalFieldProcessor" ->
            IF value = PyNone THEN Ret(PyStr(p.null_value))
            ELSE LET r == format_decimal(value, p.thousand_separator,
                                         p.decimal_separator) IN
                 IF r.kind = "raise" THEN r ELSE Ret(PyStr(r.val))
      [] p.type = "FloatFieldProcessor" ->
            IF value = PyNone THEN Ret(PyStr(p.null_value))
            ELSE LET r == format_float(value, p.thousand_separator,
                                       p.decimal_separator) IN
                 IF r.kind = "raise" THEN r ELSE Ret(PyStr(r.val))
      [] p.type = "IntegerFieldProcessor" ->
            IF value = PyNone THEN Ret(PyStr(p.null_value))
            ELSE LET r == format_integer(value, p.thousand_separator) IN
                 IF r.kind = "raise" THEN r ELSE Ret(PyStr(r.val))
      [] p.type = "PercentageFieldProcessor" ->
            IF value = PyNone THEN Ret(PyStr(p.null_value))
            ELSE LET v == to_string(p.number_processor, value) IN
                 IF v.kind = "raise" THEN v
                 ELSE Ret(PyStr(with_symbol(p.pre, p.sign, v.val)))
      [] p.type = "TextFieldProcessor" ->
            IF value = PyNone THEN Ret(PyStr(p.null_value)) ELSE Ret(value)
      [] OTHER -> Raise("AttributeError")   \* p is no processor

(***************************************************************************)
(* field_descriptions.py: to_field_processor of each class.  The two       *)
(* Percentage descriptions hand their number description, not a processor  *)
(* built from it, to PercentageFieldProcessor.                             *)
(***************************************************************************)
RECURSIVE to_field_processor(_, _)
to_field_processor(d, null_value) ==
    CASE d.type = "Boolean" ->
            BooleanFieldProcessor(d.true_word, d.false_word, null_value)
      [] d.type \in {"CurrencyDecimal", "CurrencyInteger"} ->
            CurrencyFieldProcessor(
                d.pre, d.currency,
                to_field_processor(d.number_description, null_value),
                null_value)
      [] d.type = "Date" ->
            DateAndDatetimeFieldProcessor("date.fromtimestamp", d.date_format,
                                          d.locale_name, null_value)
      [] d.type = "Datetime" ->
            DateAndDatetimeFieldProcessor("datetime.fromtimestamp",
                                          d.date_format, d.locale_name,
                                          null_value)
      [] d.type = "Decimal" ->
            DecimalFieldProcessor(d.thousand_sep, d.decimal_sep, null_value)
      [] d.type = "Float" ->
            FloatFieldProcessor(d.thousand_sep, d.decimal_sep, null_value)
      [] d.type = "Integer" ->
            IntegerFieldProcessor(d.thousand_sep, null_value)
      [] d.type \in {"PercentageFloat", "PercentageDecimal"} ->
            PercentageFieldProcessor(d.pre, d.sign, d.number_description,
                                     null_value)
      [] d.type = "Text" -> TextFieldProcessor(null_value)


(***************************************************************************)
(* The calls on util.py: a string is split; a sequence of tokens is        *)
(* rendered, and what was rendered is split.                               *)
(***************************************************************************)
UtilChars == {"a", SL, BS}
UtilStrings == SeqsUpTo(UtilChars, MaxLen)
UtilTokens == SeqsUpTo(UtilChars, MaxTokLen)
UtilValues == SeqsUpTo(UtilTokens, MaxToks) \ {<<>>}

ReaderIdle ==
    /\ first = TRUE
    /\ reader_pos = 0
    /\ source_closed = FALSE

\* no thread is in a call of a Date/Datetime processor
LocaleIdle ==
    /\ lc_time = None
    /\ calls = <<>>

\* no generator of lex is running
LexerIdle == lexer = None

\* no MetaCSVDataBuilder was made
BuilderIdle ==
    /\ builder = None
    /\ heap = None
    /\ built = <<>>
    /\ builder_calls = 0

InitUtil ==
    /\ inp \in [kind : {"str"}, s : UtilStrings]
                  \cup [kind : {"values"}, values : UtilValues]
    /\ op = "init"
    /\ out = NoCall
    /\ ReaderIdle
    /\ LocaleIdle
    /\ BuilderIdle
    /\ LexerIdle

SplitParameters ==
    /\ \/ /\ op = "init"
          /\ inp.kind = "str"
          /\ op' = "split_parameters"
          /\ out' = Ret(split_parameters(inp.s))
       \/ /\ op = "render"
          /\ op' = "render+split_parameters"
          /\ out' = Ret(split_parameters(out.val))
    /\ UNCHANGED <<inp, first, reader_pos, source_closed, locale_vars,
                 builder_vars, lexer>>

Render ==
    /\ op = "init"
    /\ inp.kind = "values"
    /\ op' = "render"
    /\ out' = Ret(render(inp.values))
    /\ UNCHANGED <<inp, first, reader_pos, source_closed, locale_vars,
                 builder_vars, lexer>>

NextUtil == SplitParameters \/ Render

SpecUtil == InitUtil /\ [][NextUtil]_vars

(***************************************************************************)
(* What the escaping rules say a string splits into: the scan reads one    *)
(* backslash together with the character after it.                         *)
(***************************************************************************)
RECURSIVE CutAtUnescaped(_, _, _, _)
CutAtUnescaped(s, j, cur, toks) ==
    IF j > Len(s) THEN Append(toks, cur)
    ELSE IF s[j] = BS /\ j < Len(s)
    THEN CutAtUnescaped(s, j + 2,
                        cur \o (IF s[j + 1] \in {SL, BS}
                                THEN <<s[j + 1]>> ELSE <<BS, s[j + 1]>>),
                        toks)
    ELSE IF s[j] = SL
    THEN CutAtUnescaped(s, j + 1, <<>>, Append(toks, cur))
    ELSE CutAtUnescaped(s, j + 1, Append(cur, s[j]), toks)

\* the number of backslashes s ends with
RECURSIVE TrailingBackslashes(_)
TrailingBackslashes(s) ==
    IF s = <<>> \/ s[Len(s)] # BS THEN 0
    ELSE 1 + TrailingBackslashes(SubSeq(s, 1, Len(s) - 1))

\* C8: split_parameters(s) is s cut at each '/' that is not escaped, where
\* "\/" is a literal '/', "\\" is one literal backslash that escapes nothing,
\* and a backslash before any other character stays with that character
\* (a string ending with a backslash that escapes nothing is left aside: the
\* claim does not say what it gives).
C8_SplitCutsAtUnescapedSlash ==
    (op = "split_parameters" /\ TrailingBackslashes(inp.s) % 2 = 0)
        => out = Ret(CutAtUnescaped(inp.s, 1, <<>>, <<>>))

\* C9: for a non-empty sequence of tokens whose last token is not empty,
\* splitting what render wrote gives back the same tokens.
C9_SplitInvertsRender ==
    (op = "render+split_parameters"
        /\ inp.values[Len(inp.values)] # <<>>)
        => out = Ret(inp.values)

(***************************************************************************)
(* The calls on the grammar: a description is rendered (str) and what was  *)
(* rendered is parsed; a grammar string, written as its datatype and its   *)
(* parameters joined with '/', is parsed.                                  *)
(***************************************************************************)
Words == {<<"T">>, <<"F">>, <<"/">>}
ThousandSeps == {None, <<",">>, <<" ">>}
DecimalSeps == {<<".">>, <<"/">>}
DateFormats == {<<"%", "Y">>, <<"%", "d", "/", "%", "m">>, <<"-">>}
LocaleNames == {None, <<"C">>, <<"C", ".", "U">>}
Symbols == {<<"$">>, <<"%">>, <<"/">>}

IntegerDescriptions == {IntegerFieldDescription(t) : t \in ThousandSeps}
FloatDescriptions ==
    {FloatFieldDescription(t, d) : t \in ThousandSeps \ {None},
                                   d \in DecimalSeps}
DecimalDescriptions ==
    {DecimalFieldDescription(t, d) : t \in ThousandSeps \ {None},
                                     d \in DecimalSeps}
Descriptions ==
    {BooleanFieldDescription(t, f) : t \in Words, f \in Words \cup {<<>>}}
    \cup IntegerDescriptions \cup FloatDescriptions \cup DecimalDescriptions
    \cup {DateFieldDescription(f, l) : f \in DateFormats, l \in LocaleNames}
    \cup {DatetimeFieldDescription(f, l) : f \in DateFormats, l \in LocaleNames}
    \cup {TextFieldDescription}
    \cup {CurrencyIntegerFieldDescription(p, c, n) :
              p \in BOOLEAN, c \in Symbols, n \in IntegerDescriptions}
    \cup {CurrencyDecimalFieldDescription(p, c, n) :
              p \in BOOLEAN, c \in Symbols, n \in DecimalDescriptions}
    \cup {PercentageFloatFieldDescription(p, c, n) :
              p \in BOOLEAN, c \in Symbols, n \in FloatDescriptions}
    \cup {PercentageDecimalFieldDescription(p, c, n) :
              p \in BOOLEAN, c \in Symbols, n \in DecimalDescriptions}

S_foo == <<"f", "o", "o">>
Datatypes == {S_bool, S_boolean, S_sign, S_date, S_datetime, S_decimal,
              S_float, S_integer, S_percentage, S_text, S_object, S_foo}
PlainParameters == {<<>>, <<",">>, <<".">>, <<" ">>, <<" ", ".">>, <<"y">>}
HeadParameters == {S_pre, S_post, S_foo, <<"$">>, S_integer, S_decimal,
                   S_float}
GrammarTokens ==
    {<<t>> \o ps : t \in Datatypes, ps \in SeqsUpTo(PlainParameters, MaxParams)}
    \cup {<<t, pos, <<"$">>, n>> \o ps :
              t \in {S_sign, S_percentage}, pos \in {S_pre, S_post, S_foo},
              n \in {S_integer, S_decimal, S_float, S_foo},
              ps \in SeqsUpTo(PlainParameters, MaxParams)}
    \cup {<<t>> \o ps : t \in {S_sign, S_percentage},
                        ps \in SeqsUpTo(HeadParameters, 2)}

\* the tokens joined with '/': none of them holds '/' or a backslash
RECURSIVE join(_)
join(tokens) ==
    IF Len(tokens) = 1 THEN tokens[1]
    ELSE tokens[1] \o <<SL>> \o join(Tail(tokens))

InitGrammar ==
    /\ inp \in [kind : {"description"}, d : Descriptions]
                  \cup [kind : {"grammar"}, tokens : GrammarTokens]
    /\ op = "init"
    /\ out = NoCall
    /\ ReaderIdle
    /\ LocaleIdle
    /\ BuilderIdle
    /\ LexerIdle

Str ==
    /\ op = "init"
    /\ inp.kind = "description"
    /\ op' = "str"
    /\ out' = Ret(render_description(inp.d))
    /\ UNCHANGED <<inp, first, reader_pos, source_closed, locale_vars,
                 builder_vars, lexer>>

ParseColType ==
    /\ \/ /\ op = "init"
          /\ inp.kind = "grammar"
          /\ op' = "parse_col_type"
          /\ out' = parse_col_type(join(inp.tokens))
       \/ /\ op = "str"
          /\ op' = "str+parse_col_type"
          /\ out' = parse_col_type(out.val)
    /\ UNCHANGED <<inp, first, reader_pos, source_closed, locale_vars,
                 builder_vars, lexer>>

NextGrammar == Str \/ ParseColType

SpecGrammar == InitGrammar /\ [][NextGrammar]_vars

\* C1: for every description d that can be constructed, parsing str(d)
\* succeeds and returns a description equal to d.
C1_ParseInvertsStr ==
    op = "str+parse_col_type" => out = Ret(inp.d)

(***************************************************************************)
(* The malformed grammar strings C10 lists, told from the datatype and the *)
(* parameters the string was written with.                                 *)
(***************************************************************************)
KnownDatatypes == {S_bool, S_boolean, S_sign, S_date, S_datetime, S_decimal,
                   S_float, S_integer, S_percentage, S_text, S_object}

WrongParameterCount(datatype, n) ==
    \/ datatype = S_bool /\ n \notin {1, 2}
    \/ datatype = S_integer /\ n > 1
    \/ datatype \in {S_decimal, S_float} /\ n # 2
    \/ datatype \in {S_date, S_datetime} /\ n \notin {1, 2}

MalformedComposite(datatype, ps) ==
    /\ datatype \in {S_sign, S_percentage}
    /\ \/ Len(ps) < 3
       \/ ps[1] \notin {S_pre, S_post}
       \/ datatype = S_sign /\ ps[3] \notin {S_integer, S_decimal}
       \/ datatype = S_percentage /\ ps[3] \notin {S_decimal, S_float}
       \/ WrongParameterCount(ps[3], Len(ps) - 3)

MalformedGrammar(tokens) ==
    \/ tokens[1] \notin KnownDatatypes
    \/ WrongParameterCount(tokens[1], Len(tokens) - 1)
    \/ MalformedComposite(tokens[1], Tail(tokens))

\* C10: parse_col_type raises ValueError, and returns no description, on an
\* unknown datatype, on a wrong number of parameters of bool, integer,
\* decimal, float, date or datetime, and on a sign or percentage with fewer
\* than three parameters, a position other than pre/post, a number type that
\* is not allowed, or number parameters the number type rejects.
C10_GrammarErrors ==
    (op = "parse_col_type" /\ MalformedGrammar(inp.tokens))
        => out = Raise("ValueError")

\* a sign whose position and number type are right and whose decimal number
\* type got one parameter has been rejected
C10_Witness ==
    /\ op = "parse_col_type"
    /\ Len(inp.tokens) = 5
    /\ inp.tokens[1] = S_sign
    /\ inp.tokens[2] = S_pre
    /\ inp.tokens[4] = S_decimal
    /\ out = Raise("ValueError")

(***************************************************************************)
(* The calls on a field processor: to_object on a text and to_string on a  *)
(* value.  A processor is built by its constructor, as the tests build it, *)
(* or by to_field_processor from a description parse_col_type returned.    *)
(***************************************************************************)
S_NULL == <<"N", "U", "L", "L">>
NullValues == {<<>>, S_NULL}
ProcChars == {"1", ".", ",", " ", "$", "%", "T"}
ProcTexts ==
    {None} \cup SeqsUpTo(ProcChars, MaxTextLen)
        \cup {S_NULL, <<" ">> \o S_NULL, casefold(S_NULL), S_foo,
              <<"$", " ">> \o S_NULL, S_NULL \o <<"%">>}

IntegerProcessors(n) ==
    {IntegerFieldProcessor(t, n) : t \in {None, <<>>, <<",">>}}
FloatProcessors(n) ==
    {FloatFieldProcessor(t, d, n) :
         t \in {None, <<>>, <<",">>, <<".">>}, d \in {<<".">>, <<",">>}}
DecimalProcessors(n) ==
    {DecimalFieldProcessor(t, d, n) :
         t \in {None, <<>>, <<",">>, <<".">>}, d \in {<<".">>, <<",">>}}
ConstructedProcessors ==
    UNION {
        {BooleanFieldProcessor(<<"T">>, <<"F">>, n), TextFieldProcessor(n)}
        \cup IntegerProcessors(n) \cup FloatProcessors(n)
        \cup DecimalProcessors(n)
        \cup {DateAndDatetimeFieldProcessor(f, d, l, n) :
                  f \in {"date.fromtimestamp", "datetime.fromtimestamp"},
                  d \in {<<"%", "m">>, <<"%", "d", ".", "%", "m">>},
                  l \in {None, <<"C">>, <<"x", "x">>}}
        \cup {CurrencyFieldProcessor(pre, <<"$">>, np, n) :
                  pre \in BOOLEAN,
                  np \in IntegerProcessors(n) \cup DecimalProcessors(n)}
        \cup {PercentageFieldProcessor(pre, <<"%">>, np, n) :
                  pre \in BOOLEAN,
                  np \in FloatProcessors(n) \cup DecimalProcessors(n)}
        : n \in NullValues}

\* no row of the grammar takes more than two parameters, after the
\* datatype or after the number type of a sign or percentage
MaxRowParameters == 2
ParsableTokens ==
    {<<t>> \o ps : t \in Datatypes,
                   ps \in SeqsUpTo(PlainParameters, MaxRowParameters)}
    \cup {<<t, pos, <<"$">>, n>> \o ps :
              t \in {S_sign, S_percentage}, pos \in {S_pre, S_post},
              n \in {S_integer, S_decimal, S_float},
              ps \in SeqsUpTo(PlainParameters, MaxRowParameters)}

\* the descriptions parse_col_type returns
ParsedDescriptions ==
    LET parsed == {parse_col_type(join(t)) : t \in ParsableTokens}
    IN  {r.val : r \in {x \in parsed : x.kind = "return"}}
ParsedProcessors ==
    {to_field_processor(d, n) : d \in ParsedDescriptions, n \in NullValues}

\* the values of the column type of a processor, or of the description a
\* Percentage description put in the place of one
RECURSIVE ValuesOf(_)
ValuesOf(p) ==
    CASE p.type = "BooleanFieldProcessor" -> {PyBool(TRUE), PyBool(FALSE)}
      [] p.type \in {"IntegerFieldProcessor", "Integer"} ->
             {PyInt(n) : n \in {0, 7, 0 - 15, 1234, 0 - 1234567}}
      [] p.type \in {"FloatFieldProcessor", "Float"} ->
             {PyFloat(FALSE, 15, 0 - 1), PyFloat(TRUE, 5, 0 - 1),
              PyFloat(FALSE, 12345, 0 - 1), PyFloat(TRUE, 1234567, 0)}
      [] p.type \in {"DecimalFieldProcessor", "Decimal"} ->
             {PyDecimal(FALSE, 15, 0 - 1), PyDecimal(TRUE, 5, 0 - 1),
              PyDecimal(FALSE, 12345, 0 - 1), PyDecimal(TRUE, 1234567, 0),
              PyDecimal(FALSE, 150, 0 - 2)}
      [] p.type = "DateAndDatetimeFieldProcessor" ->
             {PyDate(2020, 1, 31), PyDate(1999, 12, 1)}
      [] p.type = "TextFieldProcessor" -> {PyStr(<<>>), PyStr(S_foo)}
      [] p.type \in {"CurrencyFieldProcessor", "PercentageFieldProcessor"} ->
             ValuesOf(p.number_processor)

\* a call of to_object on a constructed processor, or of to_string on a
\* processor built either way
InitProc ==
    /\ \/ \E p \in ConstructedProcessors, t \in ProcTexts :
              inp = [kind |-> "to_object", p |-> p, text |-> t,
                     built |-> "constructor"]
       \/ \E p \in ConstructedProcessors :
              \E v \in {PyNone} \cup ValuesOf(p) :
                  inp = [kind |-> "to_string", p |-> p, value |-> v,
                         built |-> "constructor"]
       \/ \E p \in ParsedProcessors :
              \E v \in {PyNone} \cup ValuesOf(p) :
                  inp = [kind |-> "to_string", p |-> p, value |-> v,
                         built |-> "to_field_processor"]
    /\ op = "init"
    /\ out = NoCall
    /\ ReaderIdle
    /\ LocaleIdle
    /\ BuilderIdle
    /\ LexerIdle

CallToObject ==
    /\ op = "init"
    /\ inp.kind = "to_object"
    /\ op' = "to_object"
    /\ out' = to_object(inp.p, inp.text)
    /\ UNCHANGED <<inp, first, reader_pos, source_closed, locale_vars,
                 builder_vars, lexer>>

CallToString ==
    /\ op = "init"
    /\ inp.kind = "to_string"
    /\ op' = "to_string"
    /\ out' = to_string(inp.p, inp.value)
    /\ UNCHANGED <<inp, first, reader_pos, source_closed, locale_vars,
                 builder_vars, lexer>>

NextProc == CallToObject \/ CallToString

SpecProc == InitProc /\ [][NextProc]_vars

\* C2: to_object of the null sentinel of the processor, whatever its case,
\* and to_object of null return null and raise nothing, for every processor.
C2_NullParse ==
    (op = "to_object" /\ inp.text \in {None, inp.p.null_value})
        => out = Ret(PyNone)

\* C3: to_string of null returns the null sentinel of the processor and
\* raises nothing, for every processor.
C3_NullRender ==
    (op = "to_string" /\ inp.value = PyNone)
        => out = Ret(PyStr(inp.p.null_value))

\* the locale of a date processor is one the machine has
LocaleInstalled(p) ==
    p.type = "DateAndDatetimeFieldProcessor"
        => p.locale_name \in {None} \cup InstalledLocales

\* C4: when to_object fails on a text that is neither null nor the sentinel,
\* it fails with MetaCSVReadException and with no other kind of error, for
\* every processor, Decimal and Date/Datetime included.
C4_ParseFailureKind ==
    (/\ op = "to_object"
     /\ inp.text # None
     /\ strip(inp.text) # inp.p.null_value
     /\ LocaleInstalled(inp.p)
     /\ out.kind = "raise")
        => out.exc = "MetaCSVReadException"

\* C5: to_string returns a string and raises nothing for every processor
\* made from a description the parser returns and every non-null value of
\* the column type.
C5_ToStringTotal ==
    (/\ op = "to_string"
     /\ inp.built = "to_field_processor"
     /\ LocaleInstalled(inp.p)
     /\ inp.value # PyNone)
        => (out.kind = "return" /\ out.val.t = "str")

(***************************************************************************)
(* reader.py: MetaCSVReaderFactory.reader has read the header and built    *)
(* map_row for the policy on_error; MetaCSVReader.__next__ gives the       *)
(* header, then the conversion of each record.  reader_pos counts the      *)
(* records taken from the csv reader.                                      *)
(***************************************************************************)
ReadError(value, description) ==
    [t |-> "ReadError", value |-> value, description |-> description]
PyList(items) == [t |-> "list", items |-> items]

Policies == {"wrap", "null", "text", "exception"}

\* the descriptions of the columns of the header: the one of the index, or
\* TextFieldDescription.INSTANCE
reader_descriptions(header, field_description_by_index) ==
    [i \in 1..Len(header) |->
         IF i \in DOMAIN field_description_by_index
         THEN field_description_by_index[i] ELSE TextFieldDescription]

\* a mutant of aux_substitute: the raw text under every policy
aux_substitute_text(on_error, description, text) == PyStr(text)

\* what aux puts in the place of a cell whose processor raised
\* MetaCSVReadException
aux_substitute(on_error, description, text) ==
    CASE on_error = "wrap" -> ReadError(text, render_description(description))
      [] on_error = "null" -> PyNone
      [] on_error = "text" -> PyStr(text)

\* the list comprehension of map_row over zip(descriptions, processors, row)
RECURSIVE map_row_loop(_, _, _, _, _, _)
map_row_loop(on_error, descriptions, null_value, row, i, acc) ==
    IF i > Len(descriptions) \/ i > Len(row) THEN Ret(PyList(acc))
    ELSE LET r == to_object(to_field_processor(descriptions[i], null_value),
                            row[i])
         IN  IF r.kind = "return"
             THEN map_row_loop(on_error, descriptions, null_value, row, i + 1,
                               Append(acc, r.val))
             ELSE IF r.exc = "MetaCSVReadException" /\ on_error # "exception"
             THEN map_row_loop(on_error, descriptions, null_value, row, i + 1,
                               Append(acc, aux_substitute(on_error,
                                                          descriptions[i],
                                                          row[i])))
             ELSE r

map_row(on_error, descriptions, null_value, row) ==
    map_row_loop(on_error, descriptions, null_value, row, 1, <<>>)

\* a mutant of reader_next: the record before the next one is given again
reader_next_again(records, pos, closed) ==
    IF closed THEN Raise("ValueError")
    ELSE IF pos < Len(records)
    THEN Ret(records[IF pos >= 1 THEN pos ELSE 1])
    ELSE Raise("StopIteration")

\* next(self._reader): the next record of the source, StopIteration at its
\* end, ValueError once the source is closed
reader_next(records, pos, closed) ==
    IF closed THEN Raise("ValueError")
    ELSE IF pos < Len(records) THEN Ret(records[pos + 1])
    ELSE Raise("StopIteration")

ReaderCells == {<<"1">>, S_foo}
ReaderDescriptions ==
    {IntegerFieldDescription(None),
     DecimalFieldDescription(<<>>, <<".">>)}
ReaderHeader == <<<<"a">>, <<"b">>>>
ReaderIndexes ==
    UNION {[cols -> ReaderDescriptions] :
               cols \in SUBSET (1..Len(ReaderHeader))}
\* the records: short or full rows of the cells, one with the sentinel and
\* one with a cell more than the header
ReaderRows ==
    (SeqsUpTo(ReaderCells, Len(ReaderHeader)) \ {<<>>})
        \cup {<<S_NULL, <<"1">>>>, <<<<"1">>, S_foo, <<"1">>>>}

InitReader ==
    /\ inp \in [kind : {"reader"}, on_error : Policies,
                header : {ReaderHeader}, null_value : {S_NULL},
                field_description_by_index : ReaderIndexes,
                records : SeqsUpTo(ReaderRows, MaxRecords)]
    /\ op = "init"
    /\ out = NoCall
    /\ ReaderIdle
    /\ LocaleIdle
    /\ BuilderIdle
    /\ LexerIdle

\* MetaCSVReader.__next__
ReaderNext ==
    /\ inp.kind = "reader"
    /\ op' = "__next__"
    /\ IF first
       THEN /\ first' = FALSE
            /\ out' = Ret(PyList([i \in 1..Len(inp.header) |->
                                      PyStr(inp.header[i])]))
            /\ UNCHANGED <<reader_pos, source_closed>>
       ELSE LET row == reader_next(inp.records, reader_pos, source_closed) IN
            IF row.kind = "raise"
            THEN /\ source_closed' =
                        (source_closed \/ row.exc = "StopIteration")
                 /\ out' = row
                 /\ UNCHANGED <<first, reader_pos>>
            ELSE /\ reader_pos' = reader_pos + 1
                 /\ out' = map_row(inp.on_error,
                                   reader_descriptions(
                                       inp.header,
                                       inp.field_description_by_index),
                                   inp.null_value, row.val)
                 /\ UNCHANGED <<first, source_closed>>
    /\ UNCHANGED <<inp, locale_vars, builder_vars, lexer>>

NextReader == ReaderNext

SpecReader == InitReader /\ [][NextReader]_vars

\* the last call of __next__ took record reader_pos and converted it
RecordConverted ==
    op = "__next__" /\ reader_pos >= 1 /\ ~source_closed

\* what the processor of each column does, on its own, with its cell of
\* record k: cells beyond the header have no processor
CellResults(k) ==
    LET n == IF Len(inp.records[k]) < Len(inp.header)
             THEN Len(inp.records[k]) ELSE Len(inp.header)
        d == reader_descriptions(inp.header, inp.field_description_by_index)
    IN  [i \in 1..n |->
             to_object(to_field_processor(d[i], inp.null_value),
                       inp.records[k][i])]

ConversionOfRecord(k) ==
    LET res == CellResults(k)
        bad == {i \in DOMAIN res : res[i].kind = "raise"}
    IN  IF bad = {}
        THEN Ret(PyList([i \in DOMAIN res |-> res[i].val]))
        ELSE res[CHOOSE i \in bad : \A j \in bad : i <= j]

NumberPart(d) ==
    IF d.type \in {"CurrencyInteger", "CurrencyDecimal", "PercentageFloat",
                   "PercentageDecimal"}
    THEN d.number_description ELSE d

\* the decimal separator as the parser stores it
StoredDecimalSeparator(text) == IF text # <<" ">> THEN strip(text) ELSE text

\* the tokens name a float or a decimal, alone or as the number type of a
\* sign or a percentage, with a thousands separator equal to the stored
\* decimal separator
EqualSeparators(tokens) ==
    \/ /\ Len(tokens) = 3
       /\ tokens[1] \in {S_float, S_decimal}
       /\ tokens[2] = StoredDecimalSeparator(tokens[3])
    \/ /\ Len(tokens) = 6
       /\ tokens[1] \in {S_sign, S_percentage}
       /\ tokens[4] \in {S_float, S_decimal}
       /\ tokens[5] = StoredDecimalSeparator(tokens[6])

\* C11: a Float or Decimal description that parse_col_type returns, alone or
\* inside a Currency or Percentage description, has a thousands separator
\* different from its decimal separator as stored, and a grammar whose
\* thousands separator equals the stored decimal separator is rejected with
\* ValueError.
C11_SeparatorInvariant ==
    (op = "parse_col_type") =>
        /\ (out.kind = "return"
                /\ NumberPart(out.val).type \in {"Float", "Decimal"})
               => NumberPart(out.val).thousand_sep
                      # NumberPart(out.val).decimal_sep
        /\ EqualSeparators(inp.tokens) => out = Raise("ValueError")

\* a decimal inside a sign whose decimal separator " ." is stored as "." and
\* equals the thousands separator has been rejected
C11_Witness ==
    /\ op = "parse_col_type"
    /\ inp.tokens = <<S_sign, S_pre, <<"$">>, S_decimal, <<".">>, <<" ", ".">>>>
    /\ out = Raise("ValueError")

\* C12: "boolean/<t>" parses to Boolean(t, "") and "boolean/<t>/<f>" to
\* Boolean(t, f).
C12_BooleanGrammar ==
    (op = "parse_col_type" /\ inp.tokens[1] = S_boolean
         /\ Len(inp.tokens) \in {2, 3})
        => out = Ret(BooleanFieldDescription(
                         inp.tokens[2],
                         IF Len(inp.tokens) = 3 THEN inp.tokens[3] ELSE <<>>))

\* C13: a date or datetime grammar with a locale that holds no '.' gives a
\* description whose locale is the locale followed by ".utf8"; a locale that
\* holds a '.' is stored as it is.
C13_LocaleDefaultEncoding ==
    (op = "parse_col_type" /\ inp.tokens[1] \in {S_date, S_datetime}
         /\ Len(inp.tokens) = 3)
        => /\ out.kind = "return"
           /\ out.val.locale_name =
                  IF contains(inp.tokens[3], ".") THEN inp.tokens[3]
                  ELSE inp.tokens[3] \o <<".", "u", "t", "f", "8">>

(***************************************************************************)
(* The composite processors: Currency and Percentage around a number       *)
(* processor.                                                              *)
(***************************************************************************)
IsComposite(p) ==
    p.type \in {"CurrencyFieldProcessor", "PercentageFieldProcessor"}

\* C14: the processor to_field_processor(s) makes from a Currency or a
\* Percentage description wraps a field processor, built from the inner
\* description with the same sentinel s, so that its to_string reaches a
\* processor and not a description.
C14_CompositeProcessors ==
    (/\ op = "to_string"
     /\ inp.built = "to_field_processor"
     /\ IsComposite(inp.p))
        => /\ inp.p.number_processor.type \in ProcessorTypes
           /\ inp.p.number_processor.null_value = inp.p.null_value
           /\ out # Raise("AttributeError")

\* the text is the symbol of the composite on its side and a rest: the rest
SymbolRemoved(p, symbol, text) ==
    IF p.pre THEN SubSeq(text, Len(symbol) + 1, Len(text))
    ELSE SubSeq(text, 1, Len(text) - Len(symbol))
HasSymbol(p, symbol, text) ==
    IF p.pre THEN startswith(text, symbol) ELSE endswith(text, symbol)

\* a Decimal with no trailing zero in its coefficient
Canonical(v) ==
    LET q == StripZeros(v.coeff, v.exp, v.exp + 12) IN
    [neg |-> v.neg /\ v.coeff # 0, coeff |-> q.coeff, exp |-> q.exp]

\* out is the number a divided by one hundred
IsHundredthOf(a) ==
    /\ out.kind = "return"
    /\ IF a.t = "Decimal"
       THEN /\ out.val.t = "Decimal"
            /\ Canonical(out.val)
                   = Canonical(PyDecimal(a.neg, a.coeff, a.exp - 2))
       ELSE out.val = [t |-> "quotient", num |-> a,
                       den |-> PyFloat(FALSE, 100, 0)]

\* C15: to_object of a Percentage processor on the symbol, on its side, and a
\* numeral the inner processor reads as a, returns a divided by exactly one
\* hundred, for every configuration of distinct separators of the inner
\* processor.
C15_PercentageParse ==
    (/\ op = "to_object"
     /\ inp.p.type = "PercentageFieldProcessor"
     /\ inp.text # None
     /\ inp.p.number_processor.thousand_separator
            # inp.p.number_processor.decimal_separator)
        => LET a == to_object(inp.p.number_processor,
                              SymbolRemoved(inp.p, inp.p.sign, inp.text))
           IN  (/\ HasSymbol(inp.p, inp.p.sign, inp.text)
                /\ a.kind = "return"
                /\ a.val.t \in {"float", "Decimal"})
                   => IsHundredthOf(a.val)

\* one hundred times a float or a Decimal
Times100(v) ==
    IF v.t = "Decimal" THEN PyDecimal(v.neg, v.coeff * 100, v.exp)
    ELSE PyFloat(v.neg, v.coeff * 100, v.exp)

\* C16: to_string of a Percentage processor on a value v gives what the
\* inner processor renders for one hundred times v, and the symbol on its
\* side.
C16_PercentageRender ==
    (/\ op = "to_string"
     /\ inp.built = "constructor"
     /\ inp.p.type = "PercentageFieldProcessor"
     /\ inp.value # PyNone)
        => LET r == to_string(inp.p.number_processor, Times100(inp.value))
           IN  r.kind = "return"
                   => out = Ret(PyStr(IF inp.p.pre
                                      THEN inp.p.sign \o <<" ">> \o r.val.s
                                      ELSE r.val.s \o <<" ">> \o inp.p.sign))

C18_CurrencyParse ==
    (/\ op = "to_object"
     /\ inp.p.type = "CurrencyFieldProcessor"
     /\ inp.text # None
     /\ strip(inp.text) # inp.p.null_value)
        => LET t == strip(inp.text)
               a == to_object(inp.p.number_processor,
                              SymbolRemoved(inp.p, inp.p.currency, t))
           IN  IF ~HasSymbol(inp.p, inp.p.currency, t)
               THEN out = Raise("MetaCSVReadException")
               ELSE (a.kind = "return" /\ a.val # PyNone) => out = a

(***************************************************************************)
(* The calls on the number formatter of util.py: format_integer on an      *)
(* integer and a thousands separator.                                      *)
(***************************************************************************)
FormatDigits == {"0", "1", "9"}
FormatNaturals ==
    {DigitsVal(ds) : ds \in {x \in SeqsUpTo(FormatDigits, MaxDigits) :
                                 x # <<>> /\ (x[1] # "0" \/ Len(x) = 1)}}
        \cup {11, 12345678}
FormatIntegers == FormatNaturals \cup {0 - n : n \in FormatNaturals}
FormatSeparators == {None, <<>>, <<"~">>, <<",">>, <<" ", "~">>}

InitFormat ==
    /\ \E n \in FormatIntegers, s \in FormatSeparators :
           inp = [kind |-> "format_integer", value |-> PyInt(n),
                  thousand_separator |-> s]
    /\ op = "init"
    /\ out = NoCall
    /\ ReaderIdle
    /\ LocaleIdle
    /\ BuilderIdle
    /\ LexerIdle

FormatInteger ==
    /\ op = "init"
    /\ inp.kind = "format_integer"
    /\ op' = "format_integer"
    /\ out' = format_integer(inp.value, inp.thousand_separator)
    /\ UNCHANGED <<inp, first, reader_pos, source_closed, locale_vars,
                 builder_vars, lexer>>

NextFormat == FormatInteger

SpecFormat == InitFormat /\ [][NextFormat]_vars

\* the digits ds from the k-th on, with s after each digit that has a
\* positive multiple of 3 digits to its right
RECURSIVE GroupedFrom(_, _, _)
GroupedFrom(ds, k, s) ==
    IF k > Len(ds) THEN <<>>
    ELSE <<ds[k]>>
             \o (IF Len(ds) - k > 0 /\ (Len(ds) - k) % 3 = 0 THEN s ELSE <<>>)
             \o GroupedFrom(ds, k + 1, s)

AbsOf(n) == IF n < 0 THEN 0 - n ELSE n

\* C19: for every integer n and every non-empty separator s, format_integer
\* gives the sign of a negative n and then the digits of |n|, with s between
\* two digits exactly when the number of digits to the right is a positive
\* multiple of 3; taking s out of the result gives the plain form of n.
C19_IntegerGrouping ==
    (/\ op = "format_integer"
     /\ inp.thousand_separator \notin {None, <<>>})
        => LET n == inp.value.n
               s == inp.thousand_separator
           IN  /\ out = Ret((IF n < 0 THEN <<"-">> ELSE <<>>)
                                \o GroupedFrom(NatStr(AbsOf(n)), 1, s))
               /\ replace(out.val, s, <<>>) = str_number(inp.value)

C19_Witness ==
    /\ op = "format_integer"
    /\ inp.value = PyInt(0 - 12345678)
    /\ inp.thousand_separator = <<"~">>
    /\ out = Ret(<<"-", "1", "2", "~", "3", "4", "5", "~", "6", "7", "8">>)

(***************************************************************************)
(* The calls on date_format_converter.py: lex on a ULDML pattern.          *)
(***************************************************************************)
PatternChars == {"y", "M", "-", QUOTE}
Patterns == SeqsUpTo(PatternChars, MaxPatternLen)

ParseChars == {"y", "k", "W", "%", QUOTE}
ParsePatterns == SeqsUpTo(ParseChars, MaxPatternLen)

InitDate ==
    /\ \/ \E text \in Patterns : inp = [kind |-> "lex", text |-> text]
       \/ \E text \in ParsePatterns :
              inp = [kind |-> "parse", text |-> text]
    /\ op = "init"
    /\ out = NoCall
    /\ ReaderIdle
    /\ LocaleIdle
    /\ BuilderIdle
    /\ LexerIdle

Lex ==
    /\ op = "init"
    /\ inp.kind = "lex"
    /\ op' = "lex"
    /\ out' = Ret(lex(inp.text))
    /\ UNCHANGED <<inp, first, reader_pos, source_closed, locale_vars,
                 builder_vars, lexer>>

Parse ==
    /\ op = "init"
    /\ inp.kind = "parse"
    /\ op' = "parse"
    /\ out' = date_parser_parse(inp.text)
    /\ UNCHANGED <<inp, first, reader_pos, source_closed, locale_vars,
                 builder_vars, lexer>>

NextDate == Lex \/ Parse

SpecDate == InitDate /\ [][NextDate]_vars

\* every quote of the pattern opens or closes something: their number is even
BalancedQuotes(s) ==
    Cardinality({k \in 1..Len(s) : s[k] = QUOTE}) % 2 = 0

\* the last position of the run of s[k] that starts at k
RECURSIVE RunEnd(_, _)
RunEnd(s, k) ==
    IF k < Len(s) /\ s[k + 1] = s[k] THEN RunEnd(s, k + 1) ELSE k

\* the position of the quote that closes the literal whose content starts at
\* j, 0 when there is none; when escapes is TRUE, two consecutive quotes
\* inside the literal are a quote of its content and close nothing
RECURSIVE LiteralEnd(_, _, _)
LiteralEnd(s, j, escapes) ==
    IF j > Len(s) THEN 0
    ELSE IF s[j] # QUOTE THEN LiteralEnd(s, j + 1, escapes)
    ELSE IF escapes /\ j < Len(s) /\ s[j + 1] = QUOTE
    THEN LiteralEnd(s, j + 2, escapes)
    ELSE j

\* the content of a literal: each pair of quotes in it stands for one quote
RECURSIVE LiteralContent(_)
LiteralContent(body) ==
    IF body = <<>> THEN <<>>
    ELSE IF Len(body) >= 2 /\ body[1] = QUOTE /\ body[2] = QUOTE
    THEN <<QUOTE>> \o LiteralContent(SubSeq(body, 3, Len(body)))
    ELSE <<Head(body)>> \o LiteralContent(Tail(body))

\* the tokens of the pattern s from position k on, construct by construct:
\* two quotes, a quoted literal, a run of one repeated character
RECURSIVE PatternTokens(_, _, _)
PatternTokens(s, k, escapes) ==
    IF k > Len(s) THEN <<>>
    ELSE IF s[k] = QUOTE
    THEN IF k < Len(s) /\ s[k + 1] = QUOTE
         THEN <<Token("TEXT", <<QUOTE>>)>> \o PatternTokens(s, k + 2, escapes)
         ELSE LET e == LiteralEnd(s, k + 1, escapes) IN
              IF e = 0 THEN <<>>
              ELSE <<Token("TEXT", LiteralContent(SubSeq(s, k + 1, e - 1)))>>
                       \o PatternTokens(s, e + 1, escapes)
    ELSE LET e == RunEnd(s, k) IN
         <<Token(IF s[k] \in Letters THEN "FIELD" ELSE "TEXT",
                 SubSeq(s, k, e))>>
             \o PatternTokens(s, e + 1, escapes)

\* C20: for every pattern whose quotes are balanced, lex gives, in the order
\* of the pattern, a FIELD token for each maximal run of one alphabetic
\* character outside quotes, a TEXT token for each maximal run of one other
\* character outside quotes, a TEXT token with the content of each quoted
\* literal and a TEXT token "'" for two consecutive quotes outside a literal,
\* and no token for the terminator; two quotes inside a literal are read
\* either as a quote of its content or as its end and the start of the next.
C20_LexTokens ==
    (op = "lex" /\ BalancedQuotes(inp.text))
        => \/ out = Ret(PatternTokens(inp.text, 1, TRUE))
           \/ out = Ret(PatternTokens(inp.text, 1, FALSE))

\* C21: a pattern that is one quoted literal, in which two consecutive
\* quotes stand for one quote of its content, is lexed as the single TEXT
\* token of that content: the lexer goes on accumulating after the doubled
\* quote until the closing quote.
C21_EscapedQuote ==
    (/\ op = "lex"
     /\ Len(inp.text) >= 3
     /\ inp.text[1] = QUOTE
     /\ inp.text[2] # QUOTE
     /\ LiteralEnd(inp.text, 2, TRUE) = Len(inp.text))
        => out = Ret(<<Token("TEXT",
                             LiteralContent(SubSeq(inp.text, 2,
                                                   Len(inp.text) - 1)))>>)

\* what the tokens toks are assembled into: a TEXT token with each "%"
\* doubled, a FIELD token as its directive, or as its own text when the table
\* has no directive for it
RECURSIVE Assembled(_)
Assembled(toks) ==
    IF toks = <<>> THEN <<>>
    ELSE LET token == Head(toks)
             v == ULDML_TO_C1989(token.text[1], Len(token.text))
         IN  (IF token.opcode = "TEXT" THEN double_percent(token.text)
              ELSE IF v \in {None, Absent} THEN token.text ELSE v)
                 \o Assembled(Tail(toks))

\* C22: for every pattern, parse returns a string and never fails: each TEXT
\* token of the pattern with every "%" doubled, each FIELD token replaced by
\* its C89 directive, and a FIELD token with no C89 equivalent copied as its
\* raw text.
C22_FormatAssembly ==
    (op = "parse") => out = Ret(Assembled(lex(inp.text)))

(***************************************************************************)
(* util.py: time_locale, the context manager around strptime and strftime  *)
(* in DateAndDatetimeFieldProcessor, with getlocale and setlocale of the   *)
(* locale module as they convert a locale name.  Two threads call a        *)
(* processor each; a step of a thread is one of the calls time_locale      *)
(* makes.                                                                  *)
(***************************************************************************)
S_en_UTF8 == <<"e", ".", "U">>      \* stands for en_US.UTF-8, as C.U for C.UTF-8

\* locale.normalize: the alias table gives en_US.UTF-8 for C.UTF-8
locale_normalize(name) ==
    IF name = <<"C", ".", "U">> THEN S_en_UTF8 ELSE name

\* locale._parse_localename: the (language, encoding) of a name; a modifier
\* is dropped
parse_localename(name) ==
    LET normalized == locale_normalize(name)
        at == find(normalized, "@", 1)
        code == IF at = 0 THEN normalized ELSE SubSeq(normalized, 1, at - 1)
        dot == find(code, ".", 1)
    IN  IF dot # 0
        THEN Ret([language |-> SubSeq(code, 1, dot - 1),
                  encoding |-> SubSeq(code, dot + 1, Len(code))])
        ELSE IF code = <<"C">>
        THEN Ret([language |-> None, encoding |-> None])
        ELSE Raise("ValueError")

\* locale._build_localename
build_localename(t) ==
    LET language == IF t.language = None THEN <<"C">> ELSE t.language IN
    IF t.encoding = None THEN language
    ELSE language \o <<".">> \o t.encoding

\* setlocale(LC_TIME, name) of the C library: the new locale, or locale.Error
\* and no change when the machine has no such locale
setlocale(name) ==
    IF name \in InstalledLocales THEN Ret(name) ELSE Raise("locale.Error")

\* getlocale(LC_TIME)
getlocale(current) == parse_localename(current)

\* the exit of time_locale that leaves the locale as the body had it
time_locale_exit_keep(oldlocale, current) == Ret(current)

\* the finally clause of time_locale: oldlocale is a tuple, which is never
\* None, and setlocale gets the name built from it
time_locale_exit(oldlocale, current) ==
    setlocale(locale_normalize(build_localename(oldlocale)))

Threads == {1, 2}
LocaleCallLocales == {None, <<"C">>, <<"C", ".", "U">>, <<"x", "x">>}
LocaleCalls ==
    UNION {
        {[kind |-> "to_object", p |-> p, arg |-> t] :
             t \in {None, <<"0", "1">>, S_foo}}
        \cup {[kind |-> "to_string", p |-> p, arg |-> v] :
                  v \in {PyNone, PyDate(2020, 1, 31)}}
        : p \in {DateAndDatetimeFieldProcessor("date.fromtimestamp",
                                               <<"%", "m">>, l, S_NULL) :
                     l \in LocaleCallLocales}}

NotStarted ==
    [pc |-> "start", oldlocale |-> None, ran_under |-> None,
     result |-> NoCall]

InitLocale ==
    /\ \E c1 \in LocaleCalls, c2 \in LocaleCalls, l \in InstalledLocales,
          s \in BOOLEAN :
           /\ inp = [kind |-> "locale", calls |-> <<c1, c2>>, initial |-> l,
                     serialized |-> s]
           /\ lc_time = l
    /\ calls = <<NotStarted, NotStarted>>
    /\ op = "init"
    /\ out = NoCall
    /\ ReaderIdle
    /\ BuilderIdle
    /\ LexerIdle

\* thread t may take a step: a caller that serializes lets no call start
\* while the other is in progress
MayStep(t) ==
    inp.serialized =>
        \A u \in Threads \ {t} : calls[u].pc \in {"start", "done"}

\* strptime or strftime of the call c, under the locale of the process
LocaleCallBody(c) ==
    IF c.kind = "to_object" THEN strptime(c.arg, c.p.date_format)
    ELSE IF c.arg = PyNone THEN Raise("AttributeError")
    ELSE Ret(PyStr(strftime(c.arg, c.p.date_format)))

\* to_object or to_string up to the first call on the locale: null is
\* returned, or the body runs with no time_locale, or getlocale is called
CallEnter ==
    \E t \in Threads :
        LET c == inp.calls[t]
            old == getlocale(lc_time)
        IN  /\ calls[t].pc = "start"
            /\ MayStep(t)
            /\ calls' =
                 [calls EXCEPT ![t] =
                    IF c.kind = "to_object"
                           /\ text_or_none(c.arg, c.p.null_value) = None
                    THEN [@ EXCEPT !.pc = "done", !.result = Ret(PyNone)]
                    ELSE IF c.p.locale_name = None
                    THEN [@ EXCEPT !.pc = "done", !.ran_under = lc_time,
                                   !.result = LocaleCallBody(c)]
                    ELSE IF old.kind = "raise"
                    THEN [@ EXCEPT !.pc = "done", !.result = old]
                    ELSE [@ EXCEPT !.pc = "entered",
                                   !.oldlocale = old.val]]
            /\ op' = "getlocale"
            /\ UNCHANGED <<inp, out, lc_time, first, reader_pos,
                           source_closed, builder_vars, lexer>>

\* setlocale(LC_TIME, locale_name), before the try block
CallSetLocale ==
    \E t \in Threads :
        LET r == setlocale(inp.calls[t].p.locale_name) IN
        /\ calls[t].pc = "entered"
        /\ MayStep(t)
        /\ IF r.kind = "raise"
           THEN /\ calls' = [calls EXCEPT ![t].pc = "done", ![t].result = r]
                /\ UNCHANGED lc_time
           ELSE /\ calls' = [calls EXCEPT ![t].pc = "body"]
                /\ lc_time' = r.val
        /\ op' = "setlocale"
        /\ UNCHANGED <<inp, out, first, reader_pos, source_closed,
                       builder_vars, lexer>>

\* the body of the with statement
CallBody ==
    \E t \in Threads :
        /\ calls[t].pc = "body"
        /\ MayStep(t)
        /\ calls' = [calls EXCEPT ![t].pc = "exit",
                                  ![t].ran_under = lc_time,
                                  ![t].result = LocaleCallBody(inp.calls[t])]
        /\ op' = "body"
        /\ UNCHANGED <<inp, out, lc_time, first, reader_pos, source_closed,
                       builder_vars, lexer>>

\* the finally clause; an error of setlocale replaces the result of the body
CallExit ==
    \E t \in Threads :
        LET r == time_locale_exit(calls[t].oldlocale, lc_time) IN
        /\ calls[t].pc = "exit"
        /\ MayStep(t)
        /\ IF r.kind = "raise"
           THEN /\ calls' = [calls EXCEPT ![t].pc = "done", ![t].result = r]
                /\ UNCHANGED lc_time
           ELSE /\ calls' = [calls EXCEPT ![t].pc = "done"]
                /\ lc_time' = r.val
        /\ op' = "finally"
        /\ UNCHANGED <<inp, out, first, reader_pos, source_closed,
                       builder_vars, lexer>>

NextLocale == CallEnter \/ CallSetLocale \/ CallBody \/ CallExit

SpecLocale == InitLocale /\ [][NextLocale]_vars

\* a thread is between the entry and the exit of time_locale
InTimeLocale(t) == calls[t].pc \in {"body", "exit"}

\* C23: with calls that do not overlap, the locale of the process differs
\* from its value before the calls only while a call is between the entry
\* and the exit of time_locale: it is that value again after each call,
\* when the parse or the format succeeded and when it failed.
C23_ScopedLocale ==
    (/\ inp.kind = "locale"
     /\ inp.serialized
     /\ \A t \in Threads : ~InTimeLocale(t))
        => lc_time = inp.initial

\* the locale a call is meant to run under
OwnLocale(c) ==
    IF c.p.locale_name = None THEN inp.initial ELSE c.p.locale_name

\* C24: when the caller serializes the two calls, each call that reaches
\* strptime or strftime runs it under its own locale, and the locale of the
\* process is the initial one after both calls.
C24_SerializedCalls ==
    (inp.kind = "locale" /\ inp.serialized)
        => /\ \A t \in Threads :
                  calls[t].ran_under \in {None, OwnLocale(inp.calls[t])}
           /\ (\A t \in Threads : calls[t].pc = "done")
                  => lc_time = inp.initial

\* the interleaving of two calls that are not serialized, in which the first
\* ran under the locale of the second
C24_Race ==
    /\ inp.kind = "locale"
    /\ ~inp.serialized
    /\ inp.initial = <<"C">>
    /\ \A t \in Threads : calls[t].pc = "done"
    /\ inp.calls[1].p.locale_name # inp.calls[2].p.locale_name
    /\ calls[1].ran_under = inp.calls[2].p.locale_name
    /\ calls[1].ran_under # None

(***************************************************************************)
(* The order of what a MetaCSVReader gives, and the cells of its rows.     *)
(***************************************************************************)
\* C25: the first next() returns the header; when the records are
\* exhausted next() closes the source and raises StopIteration, on that call
\* and on every later call; the source is never closed while records remain.
C25_ReaderOrder ==
    (inp.kind = "reader" /\ op = "__next__")
        => /\ (~first /\ reader_pos = 0 /\ ~source_closed)
                  => out = Ret(PyList([i \in 1..Len(inp.header) |->
                                           PyStr(inp.header[i])]))
           /\ source_closed
                  => /\ reader_pos = Len(inp.records)
                     /\ out = Raise("StopIteration")

\* C29: a data row that a MetaCSVReader returns has one entry for each cell
\* of the record it was read from, also when the record has more cells or
\* fewer cells than the header.
C29_NoCellLost ==
    (inp.kind = "reader" /\ RecordConverted /\ out.kind = "return")
        => Len(out.val.items) = Len(inp.records[reader_pos])

(***************************************************************************)
(* meta_csv_data.py: MetaCSVDataBuilder and the MetaCSVData it builds;     *)
(* renderer.py: the minimal rendering of a MetaCSVData.  The dialect, the  *)
(* meta dict and the description dict are objects: heap holds them under   *)
(* their identity, and a MetaCSVData holds the identity it was given.      *)
(***************************************************************************)
DQUOTE == "\""
CR == "\r"
LF == "\n"
S_UTF_8 == <<"U", "T", "F", "-", "8">>
S_utf_8 == <<"u", "t", "f", "-", "8">>
S_utf_8_sig == <<"u", "t", "f", "-", "8", "-", "s", "i", "g">>
S_ascii == <<"a", "s", "c", "i", "i">>
S_draft0 == <<"d", "r", "a", "f", "t", "0">>
S_delimiter == <<"d", "e", "l", "i", "m", "i", "t", "e", "r">>

\* str(bool(x)).lower()
lower_str_bool(x) == IF x THEN S_true ELSE S_false

rfc4180_dialect ==
    [delimiter |-> <<",">>, quotechar |-> <<DQUOTE>>, doublequote |-> TRUE,
     skipinitialspace |-> FALSE, lineterminator |-> <<CR, LF>>,
     escapechar |-> None, quoting |-> 0]

EmptyDict == [k \in {} |-> None]

\* d[k] = v on a dict
dict_set(d, k, v) ==
    [x \in DOMAIN d \cup {k} |-> IF x = k THEN v ELSE d[x]]

\* MetaCSVData.__init__: every argument is stored as it is given
MetaCSVData(meta_version, meta, encoding, bom, dialect, null_value, field_description_by_index) ==
    [meta_version |-> meta_version, meta |-> meta, encoding |-> encoding,
     bom |-> bom, dialect |-> dialect, null_value |-> null_value,
     field_description_by_index |-> field_description_by_index]

BuilderSelf == [t |-> "MetaCSVDataBuilder"]
BuilderVersions == {<<"1">>}
BuilderMeta == {[key |-> <<"k">>, value |-> <<"v">>]}
BuilderEncodings == {S_utf_8_sig, S_ascii}
BuilderLineTerminators == {<<LF>>}
BuilderDelimiters == {<<";">>}
BuilderEscapeChars == {<<BS>>}
BuilderQuoteChars == {<<QUOTE>>}
BuilderNullValues == {S_NULL}
BuilderColIndexes == {0}
BuilderDescriptions == {TextFieldDescription, IntegerFieldDescription(None)}

\* MetaCSVDataBuilder.__init__
InitBuilder ==
    /\ inp = [kind |-> "builder"]
    /\ op = "init"
    /\ out = NoCall
    /\ ReaderIdle
    /\ LocaleIdle
    /\ LexerIdle
    /\ builder = [_meta_version |-> S_draft0, _meta |-> "meta",
                  _encoding |-> S_UTF_8, _bom |-> FALSE,
                  _dialect |-> "dialect", _null_value |-> <<>>,
                  _description_by_col_index |-> "descriptions"]
    /\ heap = [dialect |-> rfc4180_dialect, meta |-> EmptyDict,
               descriptions |-> EmptyDict]
    /\ built = <<>>
    /\ builder_calls = 0

\* what every operation on the builder or on its data does besides its own
\* assignments
BuilderCall(name) ==
    /\ inp.kind = "builder"
    /\ builder_calls < MaxBuilderCalls
    /\ builder_calls' = builder_calls + 1
    /\ op' = name
    /\ UNCHANGED <<inp, first, reader_pos, source_closed, locale_vars, lexer>>

build ==
    /\ BuilderCall("build")
    /\ built' = Append(built,
                       MetaCSVData(builder._meta_version, builder._meta,
                                   builder._encoding, builder._bom,
                                   builder._dialect, builder._null_value,
                                   builder._description_by_col_index))
    /\ out' = Ret(Len(built'))
    /\ UNCHANGED <<builder, heap>>

metaVersion ==
    /\ BuilderCall("metaVersion")
    /\ \E version \in BuilderVersions :
           builder' = [builder EXCEPT !._meta_version = version]
    /\ out' = Ret(BuilderSelf)
    /\ UNCHANGED <<heap, built>>

meta ==
    /\ BuilderCall("meta")
    /\ \E m \in BuilderMeta :
           heap' = [heap EXCEPT ![builder._meta] = dict_set(@, m.key, m.value)]
    /\ out' = Ret(BuilderSelf)
    /\ UNCHANGED <<builder, built>>

encoding ==
    /\ BuilderCall("encoding")
    /\ \E e \in BuilderEncodings :
           builder' = [builder EXCEPT !._encoding = e]
    /\ out' = Ret(BuilderSelf)
    /\ UNCHANGED <<heap, built>>

bom ==
    /\ BuilderCall("bom")
    /\ \E b \in BOOLEAN : builder' = [builder EXCEPT !._bom = b]
    /\ out' = Ret(BuilderSelf)
    /\ UNCHANGED <<heap, built>>

line_terminator ==
    /\ BuilderCall("line_terminator")
    /\ \E lt \in BuilderLineTerminators :
           heap' = [heap EXCEPT ![builder._dialect].lineterminator = lt]
    /\ out' = Ret(BuilderSelf)
    /\ UNCHANGED <<builder, built>>

delimiter ==
    /\ BuilderCall("delimiter")
    /\ \E d \in BuilderDelimiters :
           heap' = [heap EXCEPT ![builder._dialect].delimiter = d]
    /\ out' = Ret(BuilderSelf)
    /\ UNCHANGED <<builder, built>>

double_quote ==
    /\ BuilderCall("double_quote")
    /\ \E dq \in BOOLEAN :
           heap' = [heap EXCEPT ![builder._dialect].doublequote = dq]
    /\ out' = Ret(BuilderSelf)
    /\ UNCHANGED <<builder, built>>

escape_char ==
    /\ BuilderCall("escape_char")
    /\ \E ec \in BuilderEscapeChars :
           heap' = [heap EXCEPT ![builder._dialect].escapechar = ec]
    /\ out' = Ret(BuilderSelf)
    /\ UNCHANGED <<builder, built>>

quote_char ==
    /\ BuilderCall("quote_char")
    /\ \E qc \in BuilderQuoteChars :
           heap' = [heap EXCEPT ![builder._dialect].quotechar = qc]
    /\ out' = Ret(BuilderSelf)
    /\ UNCHANGED <<builder, built>>

skip_initial_space ==
    /\ BuilderCall("skip_initial_space")
    /\ \E sis \in BOOLEAN :
           heap' = [heap EXCEPT ![builder._dialect].skipinitialspace = sis]
    /\ out' = Ret(BuilderSelf)
    /\ UNCHANGED <<builder, built>>

null_value ==
    /\ BuilderCall("null_value")
    /\ \E value \in BuilderNullValues :
           builder' = [builder EXCEPT !._null_value = value]
    /\ out' = Ret(BuilderSelf)
    /\ UNCHANGED <<heap, built>>

description_by_col_index ==
    /\ BuilderCall("description_by_col_index")
    /\ \E i \in BuilderColIndexes, description \in BuilderDescriptions :
           heap' = [heap EXCEPT ![builder._description_by_col_index] =
                                    dict_set(@, i, description)]
    /\ out' = Ret(BuilderSelf)
    /\ UNCHANGED <<builder, built>>

\* one row given to the csv writer: the domain and the key are literals of
\* the code, the value is a str
Row(domain, key, value) == [domain |-> domain, key |-> key, value |-> value]

RowIf(cond, domain, key, value) ==
    IF cond THEN <<Row(domain, key, value)>> ELSE <<>>

col_type_key(i) == IF i = 0 THEN "col/0/type" ELSE "col/1/type"

\* the rows of the loop on data.field_description_by_index.items(), for a
\* dict of at most one entry
description_rows(descriptions) ==
    IF DOMAIN descriptions = {} THEN <<>>
    ELSE LET i == CHOOSE x \in DOMAIN descriptions : TRUE
         IN RowIf(descriptions[i].type # "Text", "data", col_type_key(i),
                  render_description(descriptions[i]))

\* MetaCSVRenderer._write_minimal: the rows the writer receives, in order;
\* dialect and descriptions are the objects data refers to
write_minimal_rows(data, dialect, descriptions) ==
    <<Row("domain", "key", S_delimiter)>>
    \o (IF casefold(data.encoding) = S_utf_8_sig
        THEN <<Row("file", "encoding", S_utf_8), Row("file", "bom", S_true)>>
        ELSE IF casefold(data.encoding) # S_utf_8
        THEN <<Row("file", "encoding", data.encoding)>>
        ELSE RowIf(data.bom, "file", "bom", S_true))
    \o RowIf(dialect.lineterminator # <<CR, LF>>,
             "file", "line_terminator", dialect.lineterminator)
    \o RowIf(dialect.delimiter # <<",">>, "csv", "delimiter", dialect.delimiter)
    \o RowIf(~dialect.doublequote, "csv", "double_quote",
             lower_str_bool(dialect.skipinitialspace))
    \o RowIf(dialect.escapechar # None /\ dialect.escapechar # <<>>,
             "csv", "escape_char", dialect.escapechar)
    \o RowIf(dialect.quotechar # <<DQUOTE>>,
             "csv", "quote_char", dialect.quotechar)
    \o RowIf(dialect.skipinitialspace, "csv", "skip_initial_space",
             lower_str_bool(dialect.skipinitialspace))
    \o description_rows(descriptions)

\* _write_minimal(data) for one of the MetaCSVData built so far
write_minimal ==
    /\ BuilderCall("write_minimal")
    /\ \E i \in 1..Len(built) :
           out' = Ret([data |-> i,
                       rows |-> write_minimal_rows(
                                    built[i], heap[built[i].dialect],
                                    heap[built[i].field_description_by_index])])
    /\ UNCHANGED <<builder, heap, built>>

NextBuilder ==
    \/ build
    \/ metaVersion
    \/ meta
    \/ encoding
    \/ bom
    \/ line_terminator
    \/ delimiter
    \/ double_quote
    \/ escape_char
    \/ quote_char
    \/ skip_initial_space
    \/ null_value
    \/ description_by_col_index
    \/ write_minimal

SpecBuilder == InitBuilder /\ [][NextBuilder]_vars

\* the rows of a rendering that are the double_quote row
DoubleQuoteRows(rows) ==
    {i \in 1..Len(rows) :
        rows[i].domain = "csv" /\ rows[i].key = "double_quote"}

\* C26: the minimal rendering has a row csv,double_quote exactly when the
\* dialect of the data has doublequote disabled, it has one such row, and
\* the value of that row is false, whatever skipinitialspace is.
C26_MinimalDoubleQuote ==
    (inp.kind = "builder" /\ op = "write_minimal")
        => LET rows == out.val.rows
               dialect == heap[built[out.val.data].dialect]
           IN IF dialect.doublequote
              THEN DoubleQuoteRows(rows) = {}
              ELSE /\ Cardinality(DoubleQuoteRows(rows)) = 1
                   /\ \A i \in DoubleQuoteRows(rows) :
                          rows[i].value = S_false

BuilderSetters ==
    {"metaVersion", "meta", "encoding", "bom", "line_terminator", "delimiter",
     "double_quote", "escape_char", "quote_char", "skip_initial_space",
     "null_value", "description_by_col_index"}

\* the dialect, the meta mapping and the descriptions that a MetaCSVData
\* gives when it is read
ContentOf(data) ==
    [dialect |-> heap[data.dialect], meta |-> heap[data.meta],
     field_description_by_index |-> heap[data.field_description_by_index]]

\* a call of a setter of the builder changes nothing that a MetaCSVData
\* built before gives
SettersLeaveBuiltData ==
    [][(inp.kind = "builder" /\ op' \in BuilderSetters)
          => \A i \in 1..Len(built) : ContentOf(built[i])' = ContentOf(built[i])]_vars

\* two MetaCSVData built from one builder hold no common mutable object
NoSharedObject ==
    (inp.kind = "builder")
        => \A i, j \in 1..Len(built) :
               i # j => /\ built[i].dialect # built[j].dialect
                        /\ built[i].meta # built[j].meta
                        /\ built[i].field_description_by_index
                               # built[j].field_description_by_index

\* C30: after build(), later calls of setters on the same builder leave the
\* dialect, the meta mapping and the column descriptions of the MetaCSVData
\* built before unchanged, and two MetaCSVData built from one builder share
\* no mutable object.
C30_BuiltSnapshot == SettersLeaveBuiltData /\ []NoSharedObject

(***************************************************************************)
(* _DateFormatParser.lex, one iteration of its while loop at a time.       *)
(* lexer holds the local variables of the generator (i is 1-based), the    *)
(* tokens it has yielded, and examined: how many iterations have read      *)
(* each position of text.                                                  *)
(***************************************************************************)
\* yield Token(opcode, cur); state = State.START; i -= 1, then the i += 1
\* that ends the iteration
lex_emit_keep_state(l, ch, opcode) ==
    [l EXCEPT !.c = ch, !.toks = Append(@, Token(opcode, l.cur))]
lex_emit(l, ch, opcode) ==
    [l EXCEPT !.c = ch, !.state = "START",
              !.toks = Append(@, Token(opcode, l.cur))]

\* the other branches: the local variables after the i += 1 that ends the
\* iteration
lex_advance(l, ch, state, cur) ==
    [l EXCEPT !.i = @ + 1, !.c = ch, !.state = state, !.cur = cur]

\* the body of the while loop
lex_iteration(l) ==
    LET previous == l.c
        ch == l.text[l.i]
    IN
    CASE l.state = "START" ->
            IF ch = QUOTE
            THEN lex_advance(l, ch, "OPEN_TEXT", l.cur)
            ELSE lex_advance(l, ch, "IN_FIELD", <<ch>>)
      [] l.state = "OPEN_TEXT" ->
            IF ch = QUOTE
            THEN [lex_advance(l, ch, "START", l.cur)
                      EXCEPT !.toks = Append(@, Token("TEXT", <<QUOTE>>))]
            ELSE lex_advance(l, ch, "IN_TEXT", <<ch>>)
      [] l.state = "IN_FIELD" ->
            IF ch = previous
            THEN lex_advance(l, ch, "IN_FIELD", Append(l.cur, ch))
            ELSE lex_emit(l, ch, IF isalpha(l.cur) THEN "FIELD" ELSE "TEXT")
      [] l.state = "IN_TEXT" ->
            IF ch = QUOTE
            THEN lex_advance(l, ch, "MAYBE_CLOSE_TEXT", l.cur)
            ELSE lex_advance(l, ch, "IN_TEXT", Append(l.cur, ch))
      [] l.state = "MAYBE_CLOSE_TEXT" ->
            IF ch = QUOTE
            THEN lex_advance(l, ch, "MAYBE_CLOSE_TEXT", Append(l.cur, ch))
            ELSE lex_emit(l, ch, "TEXT")

\* the call of lex(text): the generator before its first iteration
InitLexer ==
    /\ \E text \in Patterns :
           /\ inp = [kind |-> "lexer", text |-> text]
           /\ lexer = [text |-> Append(text, NUL), i |-> 1, c |-> None,
                       state |-> "START", cur |-> <<>>, toks |-> <<>>,
                       examined |-> [k \in 1..(Len(text) + 1) |-> 0]]
    /\ op = "init"
    /\ out = NoCall
    /\ ReaderIdle
    /\ LocaleIdle
    /\ BuilderIdle

\* one iteration of while i < len(text)
LexIteration ==
    /\ inp.kind = "lexer"
    /\ lexer.i <= Len(lexer.text)
    /\ lexer' = [lex_iteration(lexer)
                     EXCEPT !.examined[lexer.i] = @ + 1]
    /\ op' = "iteration"
    /\ UNCHANGED <<inp, out, first, reader_pos, source_closed, locale_vars,
                   builder_vars>>

\* the loop condition fails: the generator is exhausted
LexReturn ==
    /\ inp.kind = "lexer"
    /\ op # "return"
    /\ lexer.i > Len(lexer.text)
    /\ op' = "return"
    /\ out' = Ret(lexer.toks)
    /\ UNCHANGED <<inp, first, reader_pos, source_closed, locale_vars,
                   builder_vars, lexer>>

NextLexer == LexIteration \/ LexReturn

SpecLexer == InitLexer /\ [][NextLexer]_vars

\* the generator is scheduled as long as it can run
SpecLexerLive == SpecLexer /\ WF_vars(NextLexer)

\* the iterations yield the tokens of lex
LexerAgrees ==
    (inp.kind = "lexer" /\ op = "return") => out = Ret(lex(inp.text))

\* no position of text is read by more than two iterations
ExaminedTwiceAtMost ==
    (inp.kind = "lexer")
        => \A k \in DOMAIN lexer.examined : lexer.examined[k] <= 2

\* an iteration either moves to the next position, or stays on its position
\* after it has yielded a token on a character that differs from the one
\* before, and then it has changed its state to START; the lexer never goes
\* back
LexerProgress ==
    [][(inp.kind = "lexer" /\ op' = "iteration")
          => \/ lexer'.i = lexer.i + 1
             \/ /\ lexer'.i = lexer.i
                /\ lexer'.state # lexer.state
                /\ lexer'.state = "START"
                /\ Len(lexer'.toks) = Len(lexer.toks) + 1
                /\ lexer.text[lexer.i] # lexer.c]_vars

\* C27: for every pattern, with balanced quotes, unbalanced quotes or none,
\* lex terminates; each position is read at most twice, the second time only
\* after a token was yielded on a differing character; the lexer never stays
\* on the same position in the same state.
C27_LexerTerminates ==
    /\ []ExaminedTwiceAtMost
    /\ LexerProgress
    /\ <>(inp.kind = "lexer" => op = "return")

\* lex has returned on a pattern with an unbalanced quote, of which it read a
\* position twice
C27_Witness ==
    /\ inp.kind = "lexer"
    /\ op = "return"
    /\ ~BalancedQuotes(inp.text)
    /\ \E k \in DOMAIN lexer.examined : lexer.examined[k] = 2

(***************************************************************************)
(* The cells of a Decimal or Float column, written and read back.          *)
(***************************************************************************)
\* p has a thousands separator, it differs from the decimal separator, and
\* none holds a digit, a minus, or a point unless the decimal separator is "."
PlainSeparators(p) ==
    LET t == none_to_empty(p.thousand_separator)
        d == p.decimal_separator
        plain(x) == \A k \in 1..Len(x) : ~IsDigit(x[k]) /\ x[k] \notin {"-", "."}
    IN  /\ t # <<>>
        /\ t # d
        /\ plain(t)
        /\ d = <<".">> \/ (d # <<>> /\ plain(d))

\* the default string form of v with its sign kept, its integer part
\* regrouped with t and its point replaced by d
RegroupedForm(v, t, d) ==
    LET text == str_number(v)
        neg == text[1] = "-"
        body == IF neg THEN Tail(text) ELSE text
        dot == find(body, ".", 1)
        ipart == IF dot = 0 THEN body ELSE SubSeq(body, 1, dot - 1)
    IN  (IF neg THEN <<"-">> ELSE <<>>)
            \o GroupedFrom(ipart, 1, none_to_empty(t))
            \o (IF dot = 0 THEN <<>>
                ELSE d \o SubSeq(body, dot + 1, Len(body)))

\* C28: for a Decimal or Float processor whose separators differ and are
\* plain, and every value v, to_string(v) is the default string form of v
\* with its sign kept, its integer part regrouped with the thousands
\* separator and its point replaced by the decimal separator, and to_object
\* of that string is v.
C28_DecimalRoundTrip ==
    (/\ op = "to_string"
     /\ inp.p.type \in {"DecimalFieldProcessor", "FloatFieldProcessor"}
     /\ inp.value # PyNone
     /\ PlainSeparators(inp.p))
        => /\ out = Ret(PyStr(RegroupedForm(inp.value,
                                            inp.p.thousand_separator,
                                            inp.p.decimal_separator)))
           /\ LET back == to_object(inp.p, out.val.s)
              IN  /\ back.kind = "return"
                  /\ back.val.t = inp.value.t
                  /\ Canonical(back.val) = Canonical(inp.value)

====
